---- MODULE Spec2Model ----
(***************************************************************************)
(* The fishtest worker (src/worker/worker.py) as a state machine.          *)
(*                                                                         *)
(* Three units of control share current_state: the main thread running     *)
(* worker() and fetch_and_handle_task(), the heartbeat thread running      *)
(* heartbeat(), and the signal handler on_sigint(), which Python runs in   *)
(* the main thread between two bytecodes.  A second worker process started *)
(* in the same directory is represented by its lock acquisition alone.     *)
(*                                                                         *)
(* The collaborators that are not part of worker.py (run_games, the        *)
(* dispatcher, openlock, the updater, the file system) are the environment:*)
(* each call of them is a nondeterministic choice among the outcomes the   *)
(* calling code distinguishes.                                             *)
(***************************************************************************)
EXTENDS Integers, Sequences, FiniteSets, TLC

(***************************************************************************)
(* Program constants.                                                      *)
(***************************************************************************)
INITIAL_RETRY_TIME == 15
MAX_RETRY_TIME == 900
HEARTBEAT_PERIOD == 120
HEARTBEAT_TICK == 1
HTTP_TIMEOUT == 30
\* current_state["run"] / ["task_id"] hold None when no task is assigned;
\* run and task identifiers are the positive numbers.
None == 0

(***************************************************************************)
(* Bounds of the model.                                                    *)
(***************************************************************************)
\* consecutive failed iterations that are followed
MaxFails == 8
\* termination signals delivered to the process
MaxSignals == 1
\* distinct tasks the dispatcher hands out
NumTasks == 2
\* length of a PGN file in bytes
MaxPgnLen == 1
MaxFailsHB == 1
MaxCpus == 6
MaxLiteral == 7

Min(a, b) == IF a <= b THEN a ELSE b

VARIABLES
    \* ---- main thread: worker() ----
    pc,             \* position of the main thread
    exit_code,      \* "none" while running, else the process exit status
    options,        \* [fleet, only_config]: what setup_parameters returned
    worker_lock,    \* the FileLock object: "None", "unheld", "held", "released"
    delay,          \* backoff delay of the main loop
    fish_exit,      \* local flag of worker()
    success,        \* value returned by fetch_and_handle_task
    \* ---- current_state ----
    run,            \* current_state["run"]["_id"], or None
    task_id,        \* current_state["task_id"], or None
    alive,          \* current_state["alive"]
    since_updated,  \* now - current_state["last_updated"], in seconds
    quiet,          \* (history) seconds for which run and task_id have been
                    \* set and alive true without a beat being sent
    \* ---- locals of fetch_and_handle_task ----
    task,           \* [run, task_id, spsa]: the task of this iteration
    exc,            \* kind of exception run_games raised, "none" if it returned
    api,            \* endpoint of the termination call
    server_message, \* message of the termination call
    pgn_file,       \* [name, CRC]: what the runner recorded
    \* ---- environment ----
    lock_holder,    \* who holds fishtest_worker.lock: "free", "self", "other"
    other,          \* the second worker: "absent", "main", "main_nolock", "exit1"
    fish_file,      \* fish.exit exists in the install directory
    pgn_disk,       \* [exists, bytes]: the PGN file on disk
    \* ---- heartbeat thread ----
    hb_pc,          \* position of the heartbeat thread
    hb_payload,     \* [run_id, task_id] of the payload being assembled
    hb_clock,       \* history of the heartbeat's clock readings:
                    \*   elapsed: now - last_updated as the last check that
                    \*            was due found it
                    \*   age:     seconds since the last beat was sent, up to
                    \*            one tick
                    \*   gap:     age at the moment the last beat was sent
    \* ---- history (not read by the program) ----
    fails,          \* consecutive failed iterations so far
    posts,          \* requests posted in this iteration, per endpoint, and
                    \* the message of the termination call
    signals,        \* [count, in_run]: signals delivered / delivered during run_games
    late_request,   \* a task was requested while alive was false
    faults,         \* calls of this iteration that raised, and the steps of
                    \* an update that were taken: a set of names
    \* ---- inputs and results of the pure functions ----
    fn_in, fn_out

mainVars == <<pc, exit_code, options, worker_lock, delay, fish_exit, success>>
sharedVars == <<run, task_id, alive, since_updated, quiet>>
taskVars == <<task, exc, api, server_message, pgn_file>>
envVars == <<lock_holder, other, fish_file, pgn_disk>>
hbVars == <<hb_pc, hb_payload, hb_clock>>
histVars == <<fails, posts, signals, late_request, faults>>
fnVars == <<fn_in, fn_out>>
vars == <<mainVars, sharedVars, taskVars, envVars, hbVars, histVars, fnVars>>

NoTask == [run |-> None, task_id |-> None, spsa |-> FALSE]
NoPgnFile == [name |-> FALSE, CRC |-> <<>>]
NoPgnDisk == [exists |-> FALSE, bytes |-> <<>>]
NoPosts == [request_task |-> 0, failed_task |-> 0, stop_run |-> 0, upload_pgn |-> 0,
            message |-> ""]
NoPayload == [run_id |-> None, task_id |-> None]
\* readings of the clock saturate one second above the heartbeat period
ClockCap == HEARTBEAT_PERIOD + HEARTBEAT_TICK
NoClock == [elapsed |-> 0, age |-> HEARTBEAT_TICK, gap |-> HEARTBEAT_TICK]

\* the heartbeat has a task to beat for
Beating == run # None /\ task_id # None /\ alive

\* quiet starts again whenever the task or alive changes
Track == quiet' = IF Beating /\ Beating' THEN quiet ELSE 0

(***************************************************************************)
(* zlib.crc32 and hex(), as fetch_and_handle_task uses them on the PGN     *)
(* file.  A 32-bit value is the pair <<high 16 bits, low 16 bits>>.        *)
(***************************************************************************)
Bytes == {0, 255}

RECURSIVE Xor(_, _)
Xor(a, b) ==
    IF a = 0 THEN b
    ELSE IF b = 0 THEN a
    ELSE ((a + b) % 2) + 2 * Xor(a \div 2, b \div 2)

Shr1(c) == <<c[1] \div 2, (c[2] \div 2) + (c[1] % 2) * 32768>>

\* one step of the reflected CRC-32 (polynomial 0xEDB88320)
CrcBit(c) ==
    IF c[2] % 2 = 1
    THEN <<Xor(Shr1(c)[1], 60856), Xor(Shr1(c)[2], 33568)>>
    ELSE Shr1(c)

RECURSIVE CrcBits(_, _)
CrcBits(c, n) == IF n = 0 THEN c ELSE CrcBits(CrcBit(c), n - 1)

CrcByte(c, b) == CrcBits(<<c[1], Xor(c[2], b)>>, 8)

RECURSIVE CrcUpdate(_, _)
CrcUpdate(c, s) ==
    IF s = <<>> THEN c ELSE CrcUpdate(CrcByte(c, Head(s)), Tail(s))

crc32(s) ==
    LET c == CrcUpdate(<<65535, 65535>>, s)
    IN  <<Xor(c[1], 65535), Xor(c[2], 65535)>>

Nibbles(h) == <<h \div 4096, (h \div 256) % 16, (h \div 16) % 16, h % 16>>

RECURSIVE StripZeros(_)
StripZeros(s) ==
    IF Len(s) > 1 /\ Head(s) = 0 THEN StripZeros(Tail(s)) ELSE s

\* hex(n): the hexadecimal digits of n without leading zeros
hex(c) == StripZeros(Nibbles(c[1]) \o Nibbles(c[2]))

(***************************************************************************)
(* What the environment can hand to the program.                           *)
(***************************************************************************)
PgnContents == UNION {[1..n -> Bytes] : n \in 0..MaxPgnLen}

\* what can be found on disk of the content w: w itself, w without its last
\* byte, or w with its last byte damaged
OnDisk(w) ==
    IF w = <<>> THEN {w}
    ELSE {w, SubSeq(w, 1, Len(w) - 1), [w EXCEPT ![Len(w)] = 255 - @]}

\* what run_games leaves behind: nothing recorded, a recorded name whose
\* file is missing, or a file next to the CRC of what the runner wrote
PgnResults ==
    {[file |-> NoPgnFile, disk |-> NoPgnDisk]}
    \cup {[file |-> [name |-> TRUE, CRC |-> hex(crc32(<<>>))], disk |-> NoPgnDisk]}
    \cup UNION {{[file |-> [name |-> TRUE, CRC |-> hex(crc32(w))],
                  disk |-> [exists |-> TRUE, bytes |-> b]] : b \in OnDisk(w)}
                : w \in PgnContents}

\* the tasks /api/request_task can return: task n of run n, spsa or not
Tasks == {[run |-> n, task_id |-> n, spsa |-> sp] : n \in 1..NumTasks, sp \in BOOLEAN}

RunOutcomes == {"none", "FatalException", "RunException", "WorkerException", "Exception"}

\* what concerns no process yet: the state a process is created in, and
\* the history of what it did
Blank ==
    /\ exit_code = "none"
    /\ delay = INITIAL_RETRY_TIME
    /\ fish_exit = FALSE
    /\ success = FALSE
    /\ run = None
    /\ task_id = None
    /\ alive = TRUE
    /\ since_updated = 0
    /\ quiet = 0
    /\ task = NoTask
    /\ exc = "none"
    /\ api = "failed_task"
    /\ server_message = ""
    /\ pgn_file = NoPgnFile
    /\ other = "absent"
    /\ fish_file = FALSE
    /\ pgn_disk = NoPgnDisk
    /\ hb_pc = "unstarted"
    /\ hb_payload = NoPayload
    /\ hb_clock = NoClock
    /\ fails = 0
    /\ posts = NoPosts
    /\ signals = [count |-> 0, in_run |-> FALSE]
    /\ late_request = FALSE
    /\ faults = {}

NoCall == [MAX |-> 0, x |-> [kind |-> "none", n |-> 0]]
NoResult == [status |-> "none", ret |-> 0]

Init ==
    /\ pc = "start"
    /\ options = [fleet |-> FALSE, only_config |-> FALSE]
    /\ worker_lock = "None"
    /\ lock_holder = "free"
    /\ fn_in = NoCall
    /\ fn_out = NoResult
    /\ Blank

(***************************************************************************)
(* worker(): start-up.                                                     *)
(***************************************************************************)
\* history: one more request posted to an endpoint, one more call that raised
Count(endpoint) == posts' = [posts EXCEPT ![endpoint] = @ + 1]

Fault(name) == faults' = faults \cup {name}

\* return <code> from worker(), or the interpreter ending on an uncaught
\* exception (which Python reports with exit status 1)
Return(code) ==
    /\ pc' = "done"
    /\ exit_code' = code

\* (mutant) a Timeout is printed and the worker goes on
LockTimeoutIgnored ==
    /\ worker_lock' = "unheld"
    /\ pc' = "setup"
    /\ UNCHANGED exit_code

\* except openlock.Timeout: print("Another worker ..."); return 1
LockTimeout ==
    /\ worker_lock' = "unheld"
    /\ Return("1")

\* worker_lock = FileLock(LOCK_FILE); worker_lock.acquire(timeout=0)
AcquireLock ==
    /\ pc = "start"
    /\ \/ \* FileLock() raised: "Unexpected exception", the worker goes on
          /\ worker_lock' = "None"
          /\ pc' = "setup"
          /\ Fault("lock")
          /\ UNCHANGED <<exit_code, lock_holder>>
       \/ \* acquire() raised something other than Timeout: likewise
          /\ worker_lock' = "unheld"
          /\ pc' = "setup"
          /\ Fault("lock")
          /\ UNCHANGED <<exit_code, lock_holder>>
       \/ /\ lock_holder = "free"
          /\ worker_lock' = "held"
          /\ lock_holder' = "self"
          /\ pc' = "setup"
          /\ UNCHANGED <<exit_code, faults>>
       \/ \* openlock.Timeout: another worker holds the lock
          /\ lock_holder # "free"
          /\ LockTimeout
          /\ UNCHANGED <<lock_holder, faults>>
    /\ UNCHANGED <<options, delay, fish_exit, success, other, fish_file, pgn_disk>>
    /\ UNCHANGED <<sharedVars, taskVars, hbVars, fnVars>>
    /\ UNCHANGED <<fails, posts, signals, late_request>>

\* The same lines run by a second worker process started in the same
\* directory while this one is starting.
OtherWorkerAcquireLock ==
    /\ other = "absent"
    /\ pc \in {"start", "setup"}
    /\ \/ /\ other' = "main_nolock"
          /\ UNCHANGED lock_holder
       \/ /\ lock_holder = "free"
          /\ lock_holder' = "other"
          /\ other' = "main"
       \/ /\ lock_holder # "free"
          /\ other' = "exit1"
          /\ UNCHANGED lock_holder
    /\ UNCHANGED <<mainVars, sharedVars, taskVars, fish_file, pgn_disk>>
    /\ UNCHANGED <<hbVars, histVars, fnVars>>

\* options = setup_parameters(worker_dir); write_sri; only_config
SetupParameters ==
    /\ pc = "setup"
    /\ \/ \* options is None
          /\ Return("1")
          /\ UNCHANGED options
       \/ \E f \in BOOLEAN, oc \in BOOLEAN :
            /\ options' = [fleet |-> f, only_config |-> oc]
            /\ IF oc THEN Return("0")
                     ELSE pc' = "startup_version" /\ UNCHANGED exit_code
    /\ UNCHANGED <<worker_lock, delay, fish_exit, success>>
    /\ UNCHANGED <<sharedVars, taskVars, envVars, hbVars, histVars, fnVars>>

\* (mutant) update() is called with the lock still held
KeepLockForUpdate == UNCHANGED <<worker_lock, lock_holder>>

\* worker_lock.release() as verify_worker_version calls it inside its try:
\* the new state of the lock object and of the lock file
ReleaseForUpdate ==
    IF worker_lock = "held"
    THEN worker_lock' = "released" /\ lock_holder' = "free"
    ELSE UNCHANGED <<worker_lock, lock_holder>>

\* verify_worker_version(): ret is "True", "False" or "None"
verify_worker_version(ret) ==
    \/ \* the request raised WorkerException
       /\ ret = "None"
       /\ Fault("network_error")
       /\ UNCHANGED <<worker_lock, lock_holder>>
    \/ \* "error" in req
       /\ ret = "False"
       /\ UNCHANGED <<worker_lock, lock_holder, faults>>
    \/ \* req["version"] > WORKER_VERSION: release the lock, update(); whatever
       \* raises in there is caught, and the function returns False.
       \* update() is reached unless release() raised, which it does on None
       \* and may do on a lock that is not held
       /\ ret = "False"
       /\ ReleaseForUpdate
       /\ \E invoked \in BOOLEAN :
            /\ worker_lock = "held" => invoked
            /\ worker_lock = "None" => ~invoked
            /\ faults' = faults \cup {"newer_version"}
                                \cup (IF invoked THEN {"update"} ELSE {})
    \/ /\ ret = "True"
       /\ UNCHANGED <<worker_lock, lock_holder, faults>>

\* the version check of worker() before the main loop
StartupVerifyVersion ==
    /\ pc = "startup_version"
    /\ \E ret \in {"True", "False", "None"} :
         /\ verify_worker_version(ret)
         /\ IF ret = "False" THEN Return("1")
                             ELSE pc' = "startup_checks" /\ UNCHANGED exit_code
    /\ UNCHANGED <<options, delay, fish_exit, success>>
    /\ UNCHANGED <<other, fish_file, pgn_disk>>
    /\ UNCHANGED <<sharedVars, taskVars, hbVars, fnVars>>
    /\ UNCHANGED <<fails, posts, signals, late_request>>

\* verify_toolchain(), setup_fastchess(), verify_remote_sri()
StartupChecks ==
    /\ pc = "startup_checks"
    /\ \/ Return("1")
       \/ pc' = "start_heartbeat" /\ UNCHANGED exit_code
    /\ UNCHANGED <<options, worker_lock, delay, fish_exit, success>>
    /\ UNCHANGED <<sharedVars, taskVars, envVars, hbVars, histVars, fnVars>>

\* heartbeat_thread.start(); delay = INITIAL_RETRY_TIME; fish_exit = False
StartHeartbeat ==
    /\ pc = "start_heartbeat"
    /\ hb_pc' = "while"
    /\ delay' = INITIAL_RETRY_TIME
    /\ fish_exit' = FALSE
    /\ pc' = "loop"
    /\ UNCHANGED <<exit_code, options, worker_lock, success, hb_payload, hb_clock>>
    /\ UNCHANGED <<sharedVars, taskVars, envVars, histVars, fnVars>>

(***************************************************************************)
(* worker(): the main loop, and fetch_and_handle_task().                   *)
(***************************************************************************)
\* the locals of fetch_and_handle_task, before their first assignment and
\* after the function has returned
NoLocals ==
    /\ task' = NoTask
    /\ exc' = "none"
    /\ api' = "failed_task"
    /\ server_message' = ""
    /\ pgn_file' = NoPgnFile

\* (mutant) every return of fetch_and_handle_task counts as a success
ReturnToLoopAsSuccess(value) ==
    /\ success' = TRUE
    /\ pc' = "loop_check"
    /\ NoLocals

\* fetch_and_handle_task returns `value` to the main loop
ReturnToLoop(value) ==
    /\ success' = value
    /\ pc' = "loop_check"
    /\ NoLocals

\* (mutant) while True:
GoesRoundAlways == TRUE

\* while current_state["alive"]:
GoesRound == alive

\* while current_state["alive"]: the next call of fetch_and_handle_task
\* starts with fresh locals
LoopTop ==
    /\ pc = "loop"
    /\ IF GoesRound
       THEN /\ fails < MaxFails
            /\ pc' = "verify"
            /\ posts' = NoPosts
            /\ faults' = {}
       ELSE /\ pc' = "shutdown"
            /\ UNCHANGED <<posts, faults>>
    /\ UNCHANGED <<exit_code, options, worker_lock, delay, fish_exit, success>>
    /\ UNCHANGED <<sharedVars, taskVars, envVars, hbVars, fnVars>>
    /\ UNCHANGED <<fails, signals, late_request>>

\* (mutant) any failure of the version check ends the worker
StopsOnAnyFailure(ret) == ret # "True"

\* if ret is False:
StopsOn(ret) == ret = "False"

\* ret = verify_worker_version(...); if ret is False: alive = False;
\* if not ret: return False
VerifyVersion ==
    /\ pc = "verify"
    /\ \E ret \in {"True", "False", "None"} :
         /\ verify_worker_version(ret)
         /\ alive' = IF StopsOn(ret) THEN FALSE ELSE alive
         /\ IF ret = "True"
            THEN pc' = "request_task" /\ UNCHANGED <<success, taskVars>>
            ELSE ReturnToLoop(FALSE)
    /\ UNCHANGED <<exit_code, options, delay, fish_exit>>
    /\ UNCHANGED <<run, task_id, since_updated, other, fish_file, pgn_disk>>
    /\ Track
    /\ UNCHANGED <<hbVars, fnVars>>
    /\ UNCHANGED <<fails, posts, signals, late_request>>

\* trim_files, the GitHub rate limit, POST /api/request_task, and the
\* assignment run, task_id = req["run"], req["task_id"]
RequestTask ==
    /\ pc = "request_task"
    /\ Count("request_task")
    /\ late_request' = (late_request \/ ~alive)
    /\ \/ \* WorkerException, "error" in req, "task_waiting" in req
          ReturnToLoop(FALSE)
       \/ \E t \in Tasks :
            /\ task' = t
            /\ pc' = "set_run"
            /\ UNCHANGED <<success, exc, api, server_message, pgn_file>>
    /\ UNCHANGED <<exit_code, options, worker_lock, delay, fish_exit>>
    /\ UNCHANGED <<sharedVars, envVars, hbVars, fnVars>>
    /\ UNCHANGED <<fails, signals, faults>>

\* current_state["run"] = run
SetRun ==
    /\ pc = "set_run"
    /\ run' = task.run
    /\ pc' = "set_task_id"
    /\ UNCHANGED <<exit_code, options, worker_lock, delay, fish_exit, success>>
    /\ UNCHANGED <<task_id, alive, since_updated>>
    /\ Track
    /\ UNCHANGED <<taskVars, envVars, hbVars, histVars, fnVars>>

\* current_state["task_id"] = task_id; success = False; message = "";
\* api = remote + "/api/failed_task"; pgn_file = {"name": None, "CRC": None}
SetTaskId ==
    /\ pc = "set_task_id"
    /\ task_id' = task.task_id
    /\ success' = FALSE
    /\ api' = "failed_task"
    /\ server_message' = ""
    /\ pgn_file' = NoPgnFile
    /\ pc' = "run_games"
    /\ UNCHANGED <<exit_code, options, worker_lock, delay, fish_exit>>
    /\ UNCHANGED <<run, alive, since_updated, task, exc>>
    /\ Track
    /\ UNCHANGED <<envVars, hbVars, histVars, fnVars>>

\* the except clauses around run_games: which exceptions end the worker,
\* which endpoint reports them, and with which message
\* (mutant) every exception of the runner ends the worker
SetsNotAliveOnAny(e) == e # "none"

\* current_state["alive"] = False in the clauses for FatalException and
\* Exception
SetsNotAlive(e) == e \in {"FatalException", "Exception"}

\* (mutant) a fatal error is reported as a broken run
ApiForFatalStopsRun(e) ==
    IF e \in {"RunException", "FatalException"} THEN "stop_run" ELSE "failed_task"

\* (mutant) every exception is reported to /api/failed_task
ApiForNeverStopsRun(e) == "failed_task"

\* api = remote + "/api/stop_run" in the clause for RunException only
ApiFor(e) == IF e = "RunException" THEN "stop_run" ELSE "failed_task"

MessageFor(e) ==
    CASE e = "none" -> ""
      [] e = "Exception" -> "get_exception"
      [] OTHER -> "str(e)"

\* the state in which the try statement around run_games is left when the
\* call returned (e = "none") or raised e with message m, the runner having
\* left p behind
Handle(e, m, p) ==
    /\ success' = (e = "none")
    /\ exc' = e
    /\ api' = ApiFor(e)
    /\ server_message' = m
    /\ alive' = IF SetsNotAlive(e) THEN FALSE ELSE alive
    /\ pgn_file' = p.file
    /\ pgn_disk' = p.disk
    /\ pc' = "clear_task_id"

\* try: run_games(...); success = True; except ...
RunGames ==
    /\ pc = "run_games"
    /\ \E e \in RunOutcomes, p \in PgnResults : Handle(e, MessageFor(e), p)
    /\ UNCHANGED <<exit_code, options, worker_lock, delay, fish_exit>>
    /\ UNCHANGED <<run, task_id, since_updated, task>>
    /\ Track
    /\ UNCHANGED <<lock_holder, other, fish_file>>
    /\ UNCHANGED <<hbVars, histVars, fnVars>>

\* current_state["task_id"] = None
ClearTaskId ==
    /\ pc = "clear_task_id"
    /\ task_id' = None
    /\ pc' = "clear_run"
    /\ UNCHANGED <<exit_code, options, worker_lock, delay, fish_exit, success>>
    /\ UNCHANGED <<run, alive, since_updated>>
    /\ Track
    /\ UNCHANGED <<taskVars, envVars, hbVars, histVars, fnVars>>

\* (mutant) the run stays in the shared state
ClearRunSkipped ==
    /\ pc = "clear_run"
    /\ pc' = "report"
    /\ UNCHANGED <<exit_code, options, worker_lock, delay, fish_exit, success>>
    /\ UNCHANGED <<run, task_id, alive, since_updated>>
    /\ Track
    /\ UNCHANGED <<taskVars, envVars, hbVars, histVars, fnVars>>

\* current_state["run"] = None
ClearRun ==
    /\ pc = "clear_run"
    /\ run' = None
    /\ pc' = "report"
    /\ UNCHANGED <<exit_code, options, worker_lock, delay, fish_exit, success>>
    /\ UNCHANGED <<task_id, alive, since_updated>>
    /\ Track
    /\ UNCHANGED <<taskVars, envVars, hbVars, histVars, fnVars>>

\* (mutant) the server is informed after every task
InformsAlways == TRUE

\* if not success:
Informs == ~success

\* if not success: try: send_api_post_request(api, payload) except: print
Report ==
    /\ pc = "report"
    /\ IF Informs
       THEN /\ posts' = [posts EXCEPT ![api] = @ + 1, !.message = server_message]
            /\ \/ UNCHANGED faults
               \/ \* the request raised: "Exception posting failed_task"
                  Fault("report")
       ELSE UNCHANGED <<posts, faults>>
    /\ pc' = "pgn"
    /\ UNCHANGED <<exit_code, options, worker_lock, delay, fish_exit, success>>
    /\ UNCHANGED <<sharedVars, taskVars, envVars, hbVars, fnVars>>
    /\ UNCHANGED <<fails, signals, late_request>>

\* (mutant) an SPSA run returns before the file is looked at
NoPgnToUploadOrSpsa ==
    \/ ~pgn_file.name
    \/ ~pgn_disk.exists
    \/ Len(pgn_disk.bytes) = 0
    \/ task.spsa

\* not pgn_file["name"] or not exists() or st_size == 0
NoPgnToUpload ==
    \/ ~pgn_file.name
    \/ ~pgn_disk.exists
    \/ Len(pgn_disk.bytes) = 0

\* (mutant) the checksum is not looked at
CrcIgnored == TRUE

\* crc_actual != crc_expected, negated
CrcMatches == hex(crc32(pgn_disk.bytes)) = pgn_file.CRC

\* (mutant) the run type is not looked at
UploadsWhateverRun == CrcMatches

\* the PGN is posted to /api/upload_pgn
Uploads == ~task.spsa /\ CrcMatches

\* the PGN part of fetch_and_handle_task up to the upload
UploadPgn ==
    /\ pc = "pgn"
    /\ IF NoPgnToUpload
       THEN \* print("Task exited"); return success
            /\ ReturnToLoop(success)
            /\ UNCHANGED <<posts, faults>>
       ELSE /\ \/ /\ IF Uploads THEN Count("upload_pgn") ELSE UNCHANGED posts
                  /\ \/ UNCHANGED faults
                     \/ \* the upload request raised
                        Uploads /\ Fault("upload")
               \/ \* read_bytes() raised
                  /\ ~task.spsa
                  /\ Fault("read_bytes")
                  /\ UNCHANGED posts
            /\ pc' = "unlink"
            /\ UNCHANGED <<success, taskVars>>
    /\ UNCHANGED <<exit_code, options, worker_lock, delay, fish_exit>>
    /\ UNCHANGED <<sharedVars, envVars, hbVars, fnVars>>
    /\ UNCHANGED <<fails, signals, late_request>>

\* (mutant) a task whose PGN met a problem counts as failed
ExitedOnlyIfClean == success /\ faults = {}

\* print("Task exited."); return success
Exited == success

\* try: pgn_file.unlink() except: print; return success
UnlinkPgn ==
    /\ pc = "unlink"
    /\ \/ pgn_disk' = NoPgnDisk /\ UNCHANGED faults
       \/ \* unlink() raised
          UNCHANGED pgn_disk /\ Fault("unlink")
    /\ ReturnToLoop(Exited)
    /\ UNCHANGED <<exit_code, options, worker_lock, delay, fish_exit>>
    /\ UNCHANGED <<sharedVars, hbVars, fnVars>>
    /\ UNCHANGED <<fails, posts, signals, late_request>>
    /\ UNCHANGED <<lock_holder, other, fish_file>>

\* (mutant) the doubling without its ceiling
NextDelayUncapped(d) == d * 2

\* delay = min(MAX_RETRY_TIME, delay * 2)
NextDelay(d) == Min(MAX_RETRY_TIME, d * 2)

\* (mutant) a successful iteration leaves the delay as it is
KeepDelay == delay

\* else: delay = INITIAL_RETRY_TIME
ResetDelay == INITIAL_RETRY_TIME

\* (mutant) a fleet worker backs off like any other
FleetStopsNever == FALSE

\* if options.fleet:
FleetStops == options.fleet

\* the if/elif chain after fetch_and_handle_task returned
LoopCheck ==
    /\ pc = "loop_check"
    /\ IF fish_file
       THEN /\ alive' = FALSE
            /\ fish_exit' = TRUE
            /\ pc' = "shutdown"
            /\ UNCHANGED <<delay, fails>>
       ELSE IF ~alive
       THEN /\ pc' = "shutdown"
            /\ UNCHANGED <<alive, fish_exit, delay, fails>>
       ELSE IF ~success
       THEN /\ fails' = fails + 1
            /\ IF FleetStops
               THEN /\ alive' = FALSE
                    /\ pc' = "shutdown"
               ELSE /\ pc' = "sleep"
                    /\ UNCHANGED alive
            /\ UNCHANGED <<fish_exit, delay>>
       ELSE /\ delay' = ResetDelay
            /\ fails' = 0
            /\ pc' = "loop"
            /\ UNCHANGED <<alive, fish_exit>>
    /\ UNCHANGED <<exit_code, options, worker_lock, success>>
    /\ UNCHANGED <<run, task_id, since_updated>>
    /\ Track
    /\ UNCHANGED <<taskVars, envVars, hbVars, fnVars>>
    /\ UNCHANGED <<posts, signals, late_request, faults>>

\* safe_sleep(delay) ran to its end; delay = min(MAX_RETRY_TIME, delay * 2)
SafeSleep ==
    /\ pc = "sleep"
    /\ delay' = NextDelay(delay)
    /\ pc' = "loop"
    /\ UNCHANGED <<exit_code, options, worker_lock, fish_exit, success>>
    /\ UNCHANGED <<sharedVars, taskVars, envVars, hbVars, histVars, fnVars>>

(***************************************************************************)
(* worker(): after the main loop.                                          *)
(***************************************************************************)
\* if fish_exit: (worker_dir / "fish.exit").unlink()
RemoveFishExit ==
    /\ pc = "shutdown"
    /\ fish_file' = IF fish_exit THEN FALSE ELSE fish_file
    /\ pc' = "release"
    /\ UNCHANGED <<exit_code, options, worker_lock, delay, fish_exit, success>>
    /\ UNCHANGED <<lock_holder, other, pgn_disk>>
    /\ UNCHANGED <<sharedVars, taskVars, hbVars, histVars, fnVars>>

\* worker_lock.release(): on None it raises AttributeError; on a lock that
\* is not held openlock either raises or does nothing
ReleaseLock ==
    /\ pc = "release"
    /\ CASE worker_lock = "held" ->
              /\ worker_lock' = "released"
              /\ lock_holder' = "free"
              /\ pc' = "join"
              /\ UNCHANGED exit_code
         [] worker_lock = "None" ->
              /\ Return("1")
              /\ UNCHANGED <<worker_lock, lock_holder>>
         [] OTHER ->
              /\ \/ Return("1")
                 \/ pc' = "join" /\ UNCHANGED exit_code
              /\ UNCHANGED <<worker_lock, lock_holder>>
    /\ UNCHANGED <<options, delay, fish_exit, success>>
    /\ UNCHANGED <<other, fish_file, pgn_disk>>
    /\ UNCHANGED <<sharedVars, taskVars, hbVars, histVars, fnVars>>

\* (mutant) the main loop always ends with status 0
ExitCodeZero == "0"

\* return 0 if fish_exit else 1
ExitCode == IF fish_exit THEN "0" ELSE "1"

\* heartbeat_thread.join(THREAD_JOIN_TIMEOUT); return 0 if fish_exit else 1
JoinAndReturn ==
    /\ pc = "join"
    /\ Return(ExitCode)
    /\ UNCHANGED <<options, worker_lock, delay, fish_exit, success>>
    /\ UNCHANGED <<sharedVars, taskVars, envVars, hbVars, histVars, fnVars>>

\* the user creates fish.exit in the install directory
CreateFishExit ==
    /\ pc # "done"
    /\ ~fish_file
    /\ fish_file' = TRUE
    /\ UNCHANGED <<lock_holder, other, pgn_disk>>
    /\ UNCHANGED <<mainVars, sharedVars, taskVars, hbVars, histVars, fnVars>>

(***************************************************************************)
(* The signal handler.  It runs in the main thread, wherever that thread   *)
(* is, and the FatalException it raises is handled by the try statement    *)
(* the main thread is in, if there is one that catches it.  FatalException *)
(* derives from WorkerException.                                           *)
(***************************************************************************)
SignalsInstalled == pc \notin {"start", "done"}

\* (mutant) the handler toggles the flag
on_sigint_toggles ==
    /\ SignalsInstalled
    /\ signals.count < MaxSignals
    /\ alive' = ~alive
    /\ signals' = [count |-> signals.count + 1,
                   in_run |-> (signals.in_run \/ pc = "run_games")]

\* current_state["alive"] = False; raise FatalException("Terminated by signal")
on_sigint ==
    /\ SignalsInstalled
    /\ signals.count < MaxSignals
    /\ alive' = FALSE
    /\ signals' = [count |-> signals.count + 1,
                   in_run |-> (signals.in_run \/ pc = "run_games")]

\* positions where the main thread is inside a blocking call that a try
\* statement encloses for its whole duration
OnlyInsideTry == {"run_games", "sleep"}

\* no try statement catches the exception: the interpreter prints the
\* traceback and ends with status 1 (at start-up, `return 1` does the same)
SignalUncaught ==
    /\ on_sigint
    /\ pc \notin OnlyInsideTry
    /\ Return("1")
    /\ NoLocals
    /\ UNCHANGED <<options, worker_lock, delay, fish_exit, success>>
    /\ UNCHANGED <<run, task_id, since_updated>>
    /\ Track
    /\ UNCHANGED <<envVars, hbVars, fnVars>>
    /\ UNCHANGED <<fails, posts, late_request, faults>>

\* start-up: a handler inside setup_parameters, verify_worker_version or the
\* checks swallows the exception and the step goes on
SignalInStartup ==
    /\ on_sigint
    /\ pc \in {"setup", "startup_version", "startup_checks"}
    /\ UNCHANGED <<mainVars, run, task_id, since_updated>>
    /\ Track
    /\ UNCHANGED <<taskVars, envVars, hbVars, fnVars>>
    /\ UNCHANGED <<fails, posts, late_request, faults>>

\* in the request of verify_worker_version or of /api/request_task:
\* except WorkerException: return None / return False
SignalInRequest ==
    /\ on_sigint
    /\ pc \in {"verify", "request_task"}
    /\ ReturnToLoop(FALSE)
    /\ UNCHANGED <<exit_code, options, worker_lock, delay, fish_exit>>
    /\ UNCHANGED <<run, task_id, since_updated>>
    /\ Track
    /\ UNCHANGED <<envVars, hbVars, fnVars>>
    /\ UNCHANGED <<fails, posts, late_request, faults>>

\* in run_games: except FatalException as e
SignalInRunGames ==
    /\ on_sigint
    /\ pc = "run_games"
    /\ \E p \in PgnResults : Handle("FatalException", "Terminated by signal", p)
    /\ UNCHANGED <<exit_code, options, worker_lock, delay, fish_exit>>
    /\ UNCHANGED <<run, task_id, since_updated, task>>
    /\ Track
    /\ UNCHANGED <<lock_holder, other, fish_file>>
    /\ UNCHANGED <<hbVars, fnVars>>
    /\ UNCHANGED <<fails, posts, late_request, faults>>

\* in the termination call: except Exception; the request had been sent or not
SignalInReport ==
    /\ on_sigint
    /\ pc = "report"
    /\ ~success
    /\ \/ posts' = [posts EXCEPT ![api] = @ + 1, !.message = server_message]
       \/ UNCHANGED posts
    /\ Fault("report")
    /\ pc' = "pgn"
    /\ UNCHANGED <<exit_code, options, worker_lock, delay, fish_exit, success>>
    /\ UNCHANGED <<run, task_id, since_updated>>
    /\ Track
    /\ UNCHANGED <<taskVars, envVars, hbVars, fnVars>>
    /\ UNCHANGED <<fails, late_request>>

\* in the try statement of the PGN upload: except Exception
SignalInUpload ==
    /\ on_sigint
    /\ pc = "pgn"
    /\ ~NoPgnToUpload
    /\ ~task.spsa
    /\ \/ Uploads /\ Count("upload_pgn") /\ Fault("upload")
       \/ UNCHANGED posts /\ Fault("read_bytes")
    /\ pc' = "unlink"
    /\ UNCHANGED <<exit_code, options, worker_lock, delay, fish_exit, success>>
    /\ UNCHANGED <<run, task_id, since_updated>>
    /\ Track
    /\ UNCHANGED <<taskVars, envVars, hbVars, fnVars>>
    /\ UNCHANGED <<fails, late_request>>

\* in pgn_file.unlink(): except Exception; the file was removed or not
SignalInUnlink ==
    /\ on_sigint
    /\ pc = "unlink"
    /\ \/ pgn_disk' = NoPgnDisk
       \/ UNCHANGED pgn_disk
    /\ Fault("unlink")
    /\ ReturnToLoop(success)
    /\ UNCHANGED <<exit_code, options, worker_lock, delay, fish_exit>>
    /\ UNCHANGED <<run, task_id, since_updated>>
    /\ Track
    /\ UNCHANGED <<lock_holder, other, fish_file>>
    /\ UNCHANGED <<hbVars, fnVars>>
    /\ UNCHANGED <<fails, posts, late_request>>

\* in safe_sleep: except Exception: print("Sleep interrupted...")
SignalInSleep ==
    /\ on_sigint
    /\ pc = "sleep"
    /\ delay' = NextDelay(delay)
    /\ pc' = "loop"
    /\ UNCHANGED <<exit_code, options, worker_lock, fish_exit, success>>
    /\ UNCHANGED <<run, task_id, since_updated>>
    /\ Track
    /\ UNCHANGED <<taskVars, envVars, hbVars, fnVars>>
    /\ UNCHANGED <<fails, posts, late_request, faults>>

(***************************************************************************)
(* heartbeat(): the daemon thread.  It shares current_state with the main  *)
(* thread without any lock, and it ends with the process.  Time is read    *)
(* by this thread only, so it passes where this thread sleeps or waits     *)
(* for the server.                                                         *)
(***************************************************************************)
Running == pc # "done"

Elapse(t, d) == Min(t + d, ClockCap)

\* quiet may exceed the cap by one tick, so that an overrun can be seen
ElapseQuiet(d) == IF Beating THEN Min(quiet + d, ClockCap + HEARTBEAT_TICK) ELSE 0

\* while current_state["alive"]: ... else: print("Heartbeat stopped.")
HBWhile ==
    /\ Running
    /\ hb_pc = "while"
    /\ hb_pc' = IF alive THEN "sleep" ELSE "stopped"
    /\ UNCHANGED <<hb_payload, hb_clock>>
    /\ UNCHANGED <<mainVars, sharedVars, taskVars, envVars, histVars, fnVars>>

\* (mutant) the threshold is one tick higher
DueLater(t) == t > HEARTBEAT_PERIOD + HEARTBEAT_TICK

\* current_state["last_updated"] + timedelta(seconds=120) < now
Due(t) == t > HEARTBEAT_PERIOD

\* time.sleep(1) lasting d seconds; now = datetime.now(); the check of
\* last_updated, and current_state["last_updated"] = now when it is due
HBWake(d) ==
    /\ Running
    /\ hb_pc = "sleep"
    /\ IF Due(Elapse(since_updated, d))
       THEN /\ since_updated' = 0
            /\ hb_pc' = "read_run"
       ELSE /\ since_updated' = Elapse(since_updated, d)
            /\ hb_pc' = "while"
    /\ hb_clock' = [hb_clock EXCEPT
                      !.elapsed = IF Due(Elapse(since_updated, d))
                                  THEN Elapse(since_updated, d) ELSE @,
                      !.age = Min(@ + d, HEARTBEAT_TICK)]
    /\ quiet' = ElapseQuiet(d)
    /\ UNCHANGED <<run, task_id, alive, hb_payload>>
    /\ UNCHANGED <<mainVars, taskVars, envVars, histVars, fnVars>>

\* run = current_state["run"]; payload["run_id"] = ... if run else None
HBReadRun ==
    /\ Running
    /\ hb_pc = "read_run"
    /\ hb_payload' = [hb_payload EXCEPT !.run_id = run]
    /\ hb_pc' = "read_task"
    /\ UNCHANGED hb_clock
    /\ UNCHANGED <<mainVars, sharedVars, taskVars, envVars, histVars, fnVars>>

\* (mutant) a beat is sent whatever was read
SkipsNever(p) == FALSE

\* payload["run_id"] is None or payload["task_id"] is None
SkipsBeat(p) == p.run_id = None \/ p.task_id = None

\* payload["task_id"] = current_state["task_id"]; "Skipping heartbeat..."
HBReadTaskId ==
    /\ Running
    /\ hb_pc = "read_task"
    /\ hb_payload' = [hb_payload EXCEPT !.task_id = task_id]
    /\ hb_pc' = IF SkipsBeat(hb_payload') THEN "while" ELSE "post"
    /\ UNCHANGED hb_clock
    /\ UNCHANGED <<mainVars, sharedVars, taskVars, envVars, histVars, fnVars>>

\* what send_api_post_request(remote + "/api/beat", ...) can do: raise, or
\* return a response with or without an "error" key and with task_alive
\* absent, true or false
BeatResponses ==
    {[kind |-> "raised", error |-> FALSE, task_alive |-> "absent"]}
    \cup {[kind |-> "answered", error |-> e, task_alive |-> a] :
              e \in BOOLEAN, a \in {"absent", "true", "false"}}

\* req.get("task_alive", True)
TaskAlive(req) == IF req.task_alive = "absent" THEN TRUE ELSE req.task_alive = "true"

\* (mutant) the error key is not looked at
DropsTaskDespiteError(resp) == resp.kind # "raised" /\ ~TaskAlive(resp)

\* try: ... except: ... else: if "error" not in req: if not task_alive:
DropsTask(resp) == resp.kind # "raised" /\ ~resp.error /\ ~TaskAlive(resp)

\* (mutant) an exception of the request ends the thread
AfterBeatStopsWhenRaised(resp) ==
    IF resp.kind = "raised" THEN "stopped"
    ELSE IF DropsTask(resp) THEN "drop_task_id" ELSE "while"

\* where the thread goes on: the except clause only prints, and every path
\* but the drop leads back to the while test
AfterBeat(resp) == IF DropsTask(resp) THEN "drop_task_id" ELSE "while"

\* the request to /api/beat ends after d seconds with resp
HBAnswer(resp, d) ==
    /\ Running
    /\ hb_pc = "post"
    /\ hb_pc' = AfterBeat(resp)
    /\ hb_clock' = [hb_clock EXCEPT !.gap = hb_clock.age,
                                    !.age = Min(d, HEARTBEAT_TICK)]
    /\ since_updated' = Elapse(since_updated, d)
    /\ quiet' = IF Beating THEN d ELSE 0
    /\ UNCHANGED <<run, task_id, alive, hb_payload>>
    /\ UNCHANGED <<mainVars, taskVars, envVars, histVars, fnVars>>

\* send_api_post_request(remote + "/api/beat", payload), answered or failed
\* after d seconds
HBBeat(d) == \E resp \in BeatResponses : HBAnswer(resp, d)

\* current_state["task_id"] = None
HBDropTaskId ==
    /\ Running
    /\ hb_pc = "drop_task_id"
    /\ task_id' = None
    /\ hb_pc' = "drop_run"
    /\ UNCHANGED <<run, alive, since_updated>>
    /\ Track
    /\ UNCHANGED <<hb_payload, hb_clock>>
    /\ UNCHANGED <<mainVars, taskVars, envVars, histVars, fnVars>>

\* (mutant) dropping the task ends the worker as well
HBDropRunAndStop ==
    /\ Running
    /\ hb_pc = "drop_run"
    /\ run' = None
    /\ alive' = FALSE
    /\ hb_pc' = "while"
    /\ UNCHANGED <<task_id, since_updated>>
    /\ Track
    /\ UNCHANGED <<hb_payload, hb_clock>>
    /\ UNCHANGED <<mainVars, taskVars, envVars, histVars, fnVars>>

\* current_state["run"] = None
HBDropRun ==
    /\ Running
    /\ hb_pc = "drop_run"
    /\ run' = None
    /\ hb_pc' = "while"
    /\ UNCHANGED <<task_id, alive, since_updated>>
    /\ Track
    /\ UNCHANGED <<hb_payload, hb_clock>>
    /\ UNCHANGED <<mainVars, taskVars, envVars, histVars, fnVars>>

\* the steps of the thread that take no time
HeartbeatSteps ==
    \/ HBWhile
    \/ HBReadRun
    \/ HBReadTaskId
    \/ HBDropTaskId
    \/ HBDropRun

(***************************************************************************)
(* The worker process without its heartbeat thread (whose writes the main  *)
(* thread never reads), with the signal handler and the user who creates   *)
(* fish.exit.                                                              *)
(***************************************************************************)
Startup ==
    \/ AcquireLock
    \/ SetupParameters
    \/ StartupVerifyVersion
    \/ StartupChecks
    \/ StartHeartbeat

MainLoop ==
    \/ LoopTop
    \/ VerifyVersion
    \/ RequestTask
    \/ SetRun
    \/ SetTaskId
    \/ RunGames
    \/ ClearTaskId
    \/ ClearRun
    \/ Report
    \/ UploadPgn
    \/ UnlinkPgn
    \/ LoopCheck
    \/ SafeSleep

Shutdown ==
    \/ RemoveFishExit
    \/ ReleaseLock
    \/ JoinAndReturn

Signal ==
    \/ SignalUncaught
    \/ SignalInStartup
    \/ SignalInRequest
    \/ SignalInRunGames
    \/ SignalInReport
    \/ SignalInUpload
    \/ SignalInUnlink
    \/ SignalInSleep

Next ==
    \/ Startup
    \/ MainLoop
    \/ Shutdown
    \/ Signal
    \/ CreateFishExit

Spec == Init /\ [][Next]_vars

(***************************************************************************)
(* The main loop together with the heartbeat thread.  The worker has       *)
(* passed its start-up; the dispatcher hands out tasks that are not SPSA   *)
(* and the runner leaves either no PGN or an intact one.                   *)
(***************************************************************************)
GoodPgn == [file |-> [name |-> TRUE, CRC |-> hex(crc32(<<0>>))],
            disk |-> [exists |-> TRUE, bytes |-> <<0>>]]

ScenarioHB ==
    /\ fails <= MaxFailsHB
    /\ ~task.spsa
    /\ pgn_file \in {NoPgnFile, GoodPgn.file}
    /\ pgn_disk \in {NoPgnDisk, GoodPgn.disk}

InitLoop ==
    /\ pc = "start_heartbeat"
    /\ options \in {[fleet |-> f, only_config |-> FALSE] : f \in BOOLEAN}
    /\ worker_lock = "held"
    /\ lock_holder = "self"
    /\ fn_in = NoCall
    /\ fn_out = NoResult
    /\ Blank

\* the sleeping heartbeat is descheduled for two minutes, and the server
\* answers at once
LongSleeps == {HEARTBEAT_PERIOD}

HBWakeLate == \E d \in LongSleeps : HBWake(d)

HBBeatAtOnce == HBBeat(0)

\* none of the calls made in this step raises
NoneRaises == faults' = faults

\* the steps in which the dispatcher, the runner or the count of failures
\* make a choice are held to the scenario, and the calls that report and
\* upload raise only when a signal interrupts them
NextHB ==
    \/ StartHeartbeat
    \/ LoopTop
    \/ VerifyVersion
    \/ RequestTask /\ ScenarioHB'
    \/ SetRun
    \/ SetTaskId
    \/ RunGames /\ ScenarioHB'
    \/ ClearTaskId
    \/ ClearRun
    \/ Report /\ NoneRaises
    \/ UploadPgn /\ NoneRaises
    \/ UnlinkPgn /\ NoneRaises
    \/ LoopCheck /\ ScenarioHB'
    \/ SafeSleep
    \/ Shutdown
    \/ SignalUncaught
    \/ SignalInRequest
    \/ SignalInRunGames /\ ScenarioHB'
    \/ SignalInReport
    \/ SignalInUpload
    \/ SignalInUnlink
    \/ SignalInSleep
    \/ CreateFishExit
    \/ HeartbeatSteps
    \/ HBWakeLate
    \/ HBBeatAtOnce

SpecHB == InitLoop /\ [][NextHB]_vars

(***************************************************************************)
(* A worker that is not in a fleet, with a heartbeat whose every sleep     *)
(* lasts exactly one second and a server that answers the heartbeat at     *)
(* once or when the request times out.  No signal arrives, the dispatcher  *)
(* hands out one task again and again, the runner ends normally and leaves *)
(* an intact PGN, and no iteration fails: the worker runs until the server *)
(* announces a newer version.                                              *)
(***************************************************************************)
ScenarioTimed ==
    /\ fails = 0
    /\ task \in {NoTask, [run |-> 1, task_id |-> 1, spsa |-> FALSE]}
    /\ exc = "none"
    /\ pgn_file \in {NoPgnFile, GoodPgn.file}
    /\ pgn_disk \in {NoPgnDisk, GoodPgn.disk}
    /\ faults = {}

InitTimed == InitLoop /\ ~options.fleet

BeatDurations == {0, HTTP_TIMEOUT}

HBWakeOnTime == HBWake(HEARTBEAT_TICK)

HBBeatAnswered == \E d \in BeatDurations : HBBeat(d)

NextTimed ==
    \/ StartHeartbeat
    \/ LoopTop
    \/ VerifyVersion
    \/ RequestTask /\ ScenarioTimed'
    \/ SetRun
    \/ SetTaskId
    \/ RunGames /\ ScenarioTimed'
    \/ ClearTaskId
    \/ ClearRun
    \/ Report
    \/ UploadPgn /\ ScenarioTimed'
    \/ UnlinkPgn /\ ScenarioTimed'
    \/ LoopCheck /\ ScenarioTimed'
    \/ Shutdown
    \/ HeartbeatSteps
    \/ HBWakeOnTime
    \/ HBBeatAnswered

SpecTimed == InitTimed /\ [][NextTimed]_vars

(***************************************************************************)
(* Two workers started in the same directory: the start-up of this one     *)
(* while a second one goes through the same first lines of worker().       *)
(***************************************************************************)
NextLock ==
    \/ Startup
    \/ OtherWorkerAcquireLock
    \/ SignalInStartup
    \/ CreateFishExit

SpecLock == Init /\ [][NextLock]_vars

(***************************************************************************)
(* _concurrency.__call__, the argparse type of --concurrency, applied to   *)
(* one expression on a machine with MAX logical CPUs.  An expression is    *)
(* its text: a literal, or one of a few forms that mention MAX, or a text  *)
(* the parser rejects.  Values are kept as twice the number, MAX/2 being   *)
(* a half for odd MAX.                                                     *)
(***************************************************************************)
Literals == {[kind |-> "literal", n |-> n] : n \in 0..MaxLiteral}

WithMAX == {[kind |-> k, n |-> 0] : k \in {"MAX", "MAX-1", "MAX+1", "MAX/2", "MAX*2"}}

Expressions == Literals \cup WithMAX \cup {[kind |-> "unparsable", n |-> 0]}

\* e.parse(x), doubled
ParseTwice(MAX, x) ==
    CASE x.kind = "literal" -> 2 * x.n
      [] x.kind = "MAX" -> 2 * MAX
      [] x.kind = "MAX-1" -> 2 * MAX - 2
      [] x.kind = "MAX+1" -> 2 * MAX + 2
      [] x.kind = "MAX/2" -> MAX
      [] x.kind = "MAX*2" -> 4 * MAX

\* round(): to the nearest integer, a half going to the even neighbour
round(twice) ==
    LET q == twice \div 2
    IN  IF twice % 2 = 0 THEN q
        ELSE IF q % 2 = 0 THEN q ELSE q + 1

\* (mutant) no expression is taken to mention MAX
ContainsMAXNever(x) == FALSE

\* "MAX" in x
ContainsMAX(x) == x.kind \in {"MAX", "MAX-1", "MAX+1", "MAX/2", "MAX*2"}

ValueError == [status |-> "ValueError", ret |-> 0]

\* _concurrency(MAX).__call__(x): the second component of what it returns
concurrency(MAX, x) ==
    IF x.kind = "unparsable" THEN ValueError
    ELSE LET ret == round(ParseTwice(MAX, x))
         IN  IF ret <= 0 THEN ValueError
             ELSE IF (~ContainsMAX(x) /\ ret >= MAX) \/ ret > MAX THEN ValueError
             ELSE [status |-> "returned", ret |-> ret]

InitConcurrency ==
    /\ pc = "parse_args"
    /\ options = [fleet |-> FALSE, only_config |-> FALSE]
    /\ worker_lock = "None"
    /\ lock_holder = "free"
    /\ fn_in \in {[MAX |-> m, x |-> x] : m \in 1..MaxCpus, x \in Expressions}
    /\ fn_out = NoResult
    /\ Blank

CallConcurrency ==
    /\ pc = "parse_args"
    /\ fn_out' = concurrency(fn_in.MAX, fn_in.x)
    /\ pc' = "parsed"
    /\ UNCHANGED fn_in
    /\ UNCHANGED <<exit_code, options, worker_lock, delay, fish_exit, success>>
    /\ UNCHANGED <<sharedVars, taskVars, envVars, hbVars, histVars>>

SpecConcurrency == InitConcurrency /\ [][CallConcurrency]_vars

(***************************************************************************)
(* generate_sri and verify_sri: the worker files against sri.txt.          *)
(***************************************************************************)
WORKER_VERSION == 286

FILE_LIST == <<"updater.py", "worker.py", "games.py">>

Files == {FILE_LIST[i] : i \in 1..Len(FILE_LIST)}

\* what a worker file can hold; Unreadable stands for a file whose
\* reading raises
NumContents == 2
Unreadable == 0
FileContents == 1..NumContents

\* text_hash(item)
text_hash(c) == <<"sha384", c>>

\* the worker files of an install directory
InstallDirs == [Files -> FileContents \cup {Unreadable}]

\* a dictionary of sri hashes: the "__version" entry (None if there is
\* none) and the entries of the files that have one
SriDicts ==
    {[version |-> v, hashes |-> h] :
        v \in {None, WORKER_VERSION, WORKER_VERSION - 1},
        h \in UNION {[K -> {text_hash(c) : c \in FileContents}] : K \in SUBSET Files}}

NoSri == [version |-> None, hashes |-> <<>>]

\* what open() and json.load() can make of sri.txt
SriFiles ==
    {[kind |-> "unreadable", dict |-> NoSri], [kind |-> "not_dict", dict |-> NoSri]}
    \cup {[kind |-> "dict", dict |-> d] : d \in SriDicts}

\* generate_sri(install_dir): None (here NoSri) if a file cannot be hashed
generate_sri(install_dir) ==
    IF \E i \in 1..Len(FILE_LIST) : install_dir[FILE_LIST[i]] = Unreadable
    THEN NoSri
    ELSE [version |-> WORKER_VERSION,
          hashes |-> [f \in Files |-> text_hash(install_dir[f])]]

\* (mutant) the version entry is compared like the others
SkippedNever(k) == FALSE

\* if k == "__version": continue
Skipped(k) == k = "__version"

\* verify_sri(install_dir), sri_txt being what sri.txt holds
verify_sri(install_dir, sri_txt) ==
    LET sri == generate_sri(install_dir)
        \* k in d, d[k]
        HasKey(d, k) == IF k = "__version" THEN d.version # None
                        ELSE k \in DOMAIN d.hashes
        Value(d, k) == IF k = "__version" THEN <<"version", d.version>>
                       ELSE d.hashes[k]
    IN  IF sri = NoSri THEN FALSE
        ELSE IF sri_txt.kind = "unreadable" THEN FALSE
        ELSE IF sri_txt.kind # "dict" THEN FALSE
        ELSE \A k \in {"__version"} \cup DOMAIN sri.hashes :
                \/ Skipped(k)
                \/ ~(~HasKey(sri_txt.dict, k) \/ Value(sri, k) # Value(sri_txt.dict, k))

InitSri ==
    /\ pc = "verify_sri"
    /\ options = [fleet |-> FALSE, only_config |-> FALSE]
    /\ worker_lock = "None"
    /\ lock_holder = "free"
    /\ fn_in \in [install_dir : InstallDirs, sri_txt : SriFiles]
    /\ fn_out = NoResult
    /\ Blank

CallVerifySri ==
    /\ pc = "verify_sri"
    /\ fn_out' = [status |-> "returned", ret |-> verify_sri(fn_in.install_dir, fn_in.sri_txt)]
    /\ pc' = "verified"
    /\ UNCHANGED fn_in
    /\ UNCHANGED <<exit_code, options, worker_lock, delay, fish_exit, success>>
    /\ UNCHANGED <<sharedVars, taskVars, envVars, hbVars, histVars>>

SpecSri == InitSri /\ [][CallVerifySri]_vars

(***************************************************************************)
(* setup_parameters, step 5: the port fix-up.                              *)
(***************************************************************************)
\* ports besides 80 and 443 that a configuration may name
NumOtherPorts == 20
FirstOtherPort == 8000

Protocols == {"http", "https"}
Ports == {80, 443} \cup (FirstOtherPort..(FirstOtherPort + NumOtherPorts - 1))

\* (mutant) every configuration gets the default port of its protocol
FixupPortToDefault(o) ==
    IF o.protocol = "http"
    THEN [o EXCEPT !.port = 80]
    ELSE [o EXCEPT !.port = 443]

\* if protocol == "http" and port == 443: port = 80
\* elif protocol == "https" and port == 80: port = 443
FixupPort(o) ==
    IF o.protocol = "http" /\ o.port = 443
    THEN [o EXCEPT !.port = 80]
    ELSE IF o.protocol = "https" /\ o.port = 80
    THEN [o EXCEPT !.port = 443]
    ELSE o

InitPort ==
    /\ pc = "fixup"
    /\ options = [fleet |-> FALSE, only_config |-> FALSE]
    /\ worker_lock = "None"
    /\ lock_holder = "free"
    /\ fn_in \in [protocol : Protocols, port : Ports]
    /\ fn_out = NoResult
    /\ Blank

\* the fix-up of the options as parsed
CallFixupPort ==
    /\ pc = "fixup"
    /\ fn_out' = [status |-> "fixed", ret |-> FixupPort(fn_in)]
    /\ pc' = "fixed"
    /\ UNCHANGED fn_in
    /\ UNCHANGED <<exit_code, options, worker_lock, delay, fish_exit, success>>
    /\ UNCHANGED <<sharedVars, taskVars, envVars, hbVars, histVars>>

\* the next start reads the saved options and fixes them up again
CallFixupPortAgain ==
    /\ pc = "fixed"
    /\ fn_out' = [status |-> "fixed_again", ret |-> FixupPort(fn_out.ret)]
    /\ pc' = "fixed_again"
    /\ UNCHANGED fn_in
    /\ UNCHANGED <<exit_code, options, worker_lock, delay, fish_exit, success>>
    /\ UNCHANGED <<sharedVars, taskVars, envVars, hbVars, histVars>>

SpecPort == InitPort /\ [][CallFixupPort \/ CallFixupPortAgain]_vars

(***************************************************************************)
(* The heartbeat against a server that gives one kind of answer: the       *)
(* thread has read the task the runner works on and waits for the server,  *)
(* while the main thread is about to clear the task; every sleep lasts     *)
(* one second and the server answers at once.                              *)
(***************************************************************************)
InitBeat ==
    /\ pc = "clear_task_id"
    /\ options = [fleet |-> FALSE, only_config |-> FALSE]
    /\ worker_lock = "held"
    /\ lock_holder = "self"
    /\ exit_code = "none"
    /\ delay = INITIAL_RETRY_TIME
    /\ fish_exit = FALSE
    /\ success = TRUE
    /\ task \in Tasks
    /\ run = task.run
    /\ task_id = task.task_id
    /\ alive = TRUE
    /\ since_updated = 0
    /\ quiet = 0
    /\ exc = "none"
    /\ api = "failed_task"
    /\ server_message = ""
    /\ pgn_file = NoPgnFile
    /\ other = "absent"
    /\ fish_file = FALSE
    /\ pgn_disk = NoPgnDisk
    /\ hb_pc = "post"
    /\ hb_payload = [run_id |-> task.run, task_id |-> task.task_id]
    /\ hb_clock = NoClock
    /\ fails = 0
    /\ posts = [NoPosts EXCEPT !.request_task = 1]
    /\ signals = [count |-> 0, in_run |-> FALSE]
    /\ late_request = FALSE
    /\ faults = {}
    /\ fn_in \in BeatResponses
    /\ fn_out = NoResult

\* the server's answers are of the kind drawn at the start
HBBeatGiven == HBAnswer(fn_in, 0)

NextBeat ==
    \/ HBBeatGiven
    \/ HBDropTaskId
    \/ HBDropRun
    \/ HBWhile
    \/ HBWakeOnTime
    \/ HBReadRun
    \/ HBReadTaskId
    \/ ClearTaskId
    \/ ClearRun

SpecBeat == InitBeat /\ [][NextBeat]_vars

(***************************************************************************)
(* verify_remote_sri and what worker() makes of it.                        *)
(***************************************************************************)
\* a file name of the master manifest that FILE_LIST does not have
OtherFile == "other.py"

\* what download_sri() can return: None, or the master manifest
Downloads ==
    {[kind |-> "failed", dict |-> NoSri]}
    \cup {[kind |-> "dict", dict |-> [version |-> v, hashes |-> h]] :
            v \in {None, WORKER_VERSION, WORKER_VERSION - 1},
            h \in UNION {[K -> {text_hash(c) : c \in FileContents}] :
                            K \in SUBSET (Files \cup {OtherFile})}}

\* verify_remote_sri(install_dir), sri_ being what download_sri() returns;
\* `k not in sri` raises TypeError when generate_sri returned None
verify_remote_sri(install_dir, sri_) ==
    LET sri == generate_sri(install_dir)
        version == IF sri_.dict.version = None THEN -1 ELSE sri_.dict.version
        tainted ==
            \/ version # sri.version
            \/ \E k \in DOMAIN sri_.dict.hashes :
                  k \notin DOMAIN sri.hashes \/ sri_.dict.hashes[k] # sri.hashes[k]
    IN  IF sri_.kind = "failed" THEN [status |-> "returned", ret |-> "None"]
        ELSE IF version # WORKER_VERSION THEN [status |-> "returned", ret |-> "True"]
        ELSE IF sri = NoSri THEN [status |-> "raised", ret |-> "None"]
        ELSE IF tainted THEN [status |-> "returned", ret |-> "False"]
        ELSE [status |-> "returned", ret |-> "True"]

InitRemoteSri ==
    /\ pc = "verify_remote_sri"
    /\ options = [fleet |-> FALSE, only_config |-> FALSE]
    /\ worker_lock = "held"
    /\ lock_holder = "self"
    /\ fn_in \in [install_dir : InstallDirs, sri_ : Downloads]
    /\ fn_out = [status |-> "none", ret |-> "None"]
    /\ Blank

\* unmodified = verify_remote_sri(worker_dir)
CallVerifyRemoteSri ==
    /\ pc = "verify_remote_sri"
    /\ fn_out' = verify_remote_sri(fn_in.install_dir, fn_in.sri_)
    /\ pc' = "unmodified"
    /\ UNCHANGED fn_in
    /\ UNCHANGED <<exit_code, options, worker_lock, delay, fish_exit, success>>
    /\ UNCHANGED <<sharedVars, taskVars, envVars, hbVars, histVars>>

\* if unmodified is None: return 1; worker_info["modified"] = not unmodified
WorkerInfo ==
    /\ pc = "unmodified"
    /\ IF fn_out.status = "raised" \/ fn_out.ret = "None"
       THEN Return("1") /\ UNCHANGED fn_out
       ELSE /\ pc' = "start_heartbeat"
            /\ fn_out' = [status |-> "worker_info",
                          ret |-> IF fn_out.ret = "True" THEN "False" ELSE "True"]
            /\ UNCHANGED exit_code
    /\ UNCHANGED fn_in
    /\ UNCHANGED <<options, worker_lock, delay, fish_exit, success>>
    /\ UNCHANGED <<sharedVars, taskVars, envVars, hbVars, histVars>>

NextRemoteSri == CallVerifyRemoteSri \/ WorkerInfo \/ StartHeartbeat

SpecRemoteSri == InitRemoteSri /\ [][NextRemoteSri]_vars

(***************************************************************************)
(* setup_parameters, step 5: the memory needed for STC tests.              *)
(***************************************************************************)
\* the largest max_memory (MiB) and concurrency the options may hold:
\* _memory gives an integer from 0 on, _concurrency one from 1 on
MaxMemory == 1500
MaxRequested == 5

STC_memory == 2 * (16 + 10 + 138 + 16)
fc_memory == 60

\* int(a / b) for b > 0: the quotient cut off towards zero
IntOfQuotient(a, b) == IF a >= 0 THEN a \div b ELSE -((-a) \div b)

\* (mutant) the quotient rounded up
max_concurrencyRoundedUp(max_memory) ==
    IntOfQuotient(max_memory - fc_memory + STC_memory - 1, STC_memory)

\* max_concurrency = int((options.max_memory - fc_memory) / STC_memory)
max_concurrency(max_memory) == IntOfQuotient(max_memory - fc_memory, STC_memory)

\* the memory check of setup_parameters on the options o: None, or the
\* options with concurrency and concurrency_reduced set
LimitConcurrency(o) ==
    IF max_concurrency(o.max_memory) < 1
    THEN [status |-> "None",
          ret |-> [concurrency |-> o.concurrency, concurrency_reduced |-> FALSE]]
    ELSE IF max_concurrency(o.max_memory) < o.concurrency
    THEN [status |-> "options",
          ret |-> [concurrency |-> max_concurrency(o.max_memory),
                   concurrency_reduced |-> TRUE]]
    ELSE [status |-> "options",
          ret |-> [concurrency |-> o.concurrency, concurrency_reduced |-> FALSE]]

InitMemory ==
    /\ pc = "limit_concurrency"
    /\ options = [fleet |-> FALSE, only_config |-> FALSE]
    /\ worker_lock = "None"
    /\ lock_holder = "free"
    /\ fn_in \in [max_memory : 0..MaxMemory, concurrency : 1..MaxRequested]
    /\ fn_out = [status |-> "none",
                 ret |-> [concurrency |-> 0, concurrency_reduced |-> FALSE]]
    /\ Blank

CallLimitConcurrency ==
    /\ pc = "limit_concurrency"
    /\ fn_out' = LimitConcurrency(fn_in)
    /\ pc' = "limited"
    /\ UNCHANGED fn_in
    /\ UNCHANGED <<exit_code, options, worker_lock, delay, fish_exit, success>>
    /\ UNCHANGED <<sharedVars, taskVars, envVars, hbVars, histVars>>

SpecMemory == InitMemory /\ [][CallLimitConcurrency]_vars

(***************************************************************************)
(* The message of a failed task: the except clauses around run_games,      *)
(* get_exception, and what is printed and what is posted.                  *)
(***************************************************************************)
\* frames a traceback has at most, the frame of fetch_and_handle_task
\* included
MaxFrames == 3

\* the frame of the call of run_games, always the first of the traceback
CallFrame == [filename |-> "worker.py", lineno |-> "1325"]

\* the frames below it
Frames == [filename : {"worker.py", "games.py", "subprocess.py"},
           lineno : {"10", "20"}]

Tracebacks ==
    {<<CallFrame>> \o rest :
        rest \in UNION {[1..n -> Frames] : n \in 0..(MaxFrames - 1)}}

\* the exceptions run_games can end with and their texts, str(e): the one
\* on_sigint raises, and what games.py raises with or without a text
Failures ==
    {[e |-> "FatalException", text |-> "Terminated by signal SIGINT."]}
    \cup [e : RunOutcomes \ {"none"}, text : {"", "Finished match uncleanly"}]

\* f"Exception {exc_type.__name__} at {filename}:{lineno} WorkerVersion: ..."
FormatException(type, frame) ==
    <<"Exception", type, "at", frame.filename \o ":" \o frame.lineno,
      "WorkerVersion:", ToString(WORKER_VERSION)>>

\* the while loop of get_exception from frame i on, message being the text
\* built so far
RECURSIVE WalkFrames(_, _, _, _, _)
WalkFrames(files, type, tb, i, message) ==
    IF tb[i].filename \in files
    THEN IF i + 1 > Len(tb)
         THEN FormatException(type, tb[i])
         ELSE WalkFrames(files, type, tb, i + 1, FormatException(type, tb[i]))
    ELSE message

\* get_exception(files) for an exception of the given type and traceback
get_exception(files, type, tb) ==
    WalkFrames(files, type, tb, 1, FormatException(type, tb[1]))

\* (mutant) the text printed is the text sent
PrintedAsSent(sent, text) == sent

\* message = f"{server_message} ({e})"
Printed(sent, text) == sent \o <<"(", text, ")">>

\* the except clauses: the locals message and server_message
Caught(failure, tb) ==
    IF failure.e = "Exception"
    THEN LET sent == get_exception({"worker.py", "games.py"}, failure.e, tb)
         IN  [message |-> Printed(sent, failure.text),
              server_message |-> sent]
    ELSE [message |-> <<failure.text>>, server_message |-> <<failure.text>>]

InitMessage ==
    /\ pc = "run_games"
    /\ options = [fleet |-> FALSE, only_config |-> FALSE]
    /\ worker_lock = "held"
    /\ lock_holder = "self"
    /\ fn_in \in [failure : Failures, tb : Tracebacks]
    /\ fn_out = [status |-> "none", ret |-> [message |-> <<>>, server_message |-> <<>>]]
    /\ Blank

\* run_games raised and one of the except clauses ran
CatchFailure ==
    /\ pc = "run_games"
    /\ fn_out' = [status |-> "caught", ret |-> Caught(fn_in.failure, fn_in.tb)]
    /\ pc' = "report"
    /\ UNCHANGED fn_in
    /\ UNCHANGED <<exit_code, options, worker_lock, delay, fish_exit, success>>
    /\ UNCHANGED <<sharedVars, taskVars, envVars, hbVars, histVars>>

\* print(f"\nException running games:\n{message}", file=sys.stderr);
\* send_api_post_request(api, payload) with payload["message"] = server_message
InformServer ==
    /\ pc = "report"
    /\ fn_out' = [fn_out EXCEPT !.status = "informed"]
    /\ pc' = "pgn"
    /\ UNCHANGED fn_in
    /\ UNCHANGED <<exit_code, options, worker_lock, delay, fish_exit, success>>
    /\ UNCHANGED <<sharedVars, taskVars, envVars, hbVars, histVars>>

NextMessage == CatchFailure \/ InformServer

SpecMessage == InitMessage /\ [][NextMessage]_vars

(***************************************************************************)
(* The claims.                                                             *)
(***************************************************************************)
RECURSIVE Pow2(_)
Pow2(n) == IF n = 0 THEN 1 ELSE 2 * Pow2(n - 1)

BackoffDelay(k) == Min(MAX_RETRY_TIME, INITIAL_RETRY_TIME * Pow2(k - 1))

\* C1: the backoff sleep that follows the k-th consecutive failed iteration
\* lasts min(MAX_RETRY_TIME, INITIAL_RETRY_TIME * 2^(k-1)) seconds, and the
\* delay always lies between INITIAL_RETRY_TIME and MAX_RETRY_TIME.
C1_BackoffDelay ==
    /\ INITIAL_RETRY_TIME <= delay
    /\ delay <= MAX_RETRY_TIME
    /\ pc = "sleep" => (fails >= 1 /\ delay = BackoffDelay(fails))

\* the seventh failure in a row is the first whose doubling hits the ceiling
C1_Witness == pc = "sleep" /\ fails = 7 /\ delay = MAX_RETRY_TIME

\* C2 as stated: after every iteration in which fetch_and_handle_task
\* returned success the delay is INITIAL_RETRY_TIME.
C2_ResetOnEverySuccess ==
    (pc \in {"loop", "shutdown"} /\ success) => delay = INITIAL_RETRY_TIME

\* C2 amended: a successful iteration after which the main loop goes on
\* leaves the delay at INITIAL_RETRY_TIME, and the first failure after it
\* sleeps INITIAL_RETRY_TIME.
C2_ResetOnSuccess ==
    /\ (pc = "loop" /\ success) => (delay = INITIAL_RETRY_TIME /\ fails = 0)
    /\ (pc = "sleep" /\ fails = 1) => delay = INITIAL_RETRY_TIME

C2_Witness ==
    pc = "loop" /\ success /\ alive /\ posts.request_task = 1 /\ delay = INITIAL_RETRY_TIME

\* C3: alive starts true and falls at most once: under every interleaving
\* of the main loop, the heartbeat thread and the signal handler, no step
\* sets alive back to true once it is false.
C3_AliveFallsOnce == [][~alive => ~alive']_vars

C3_Witness ==
    /\ pc = "done" /\ ~alive /\ signals.count = 1 /\ fish_exit
    /\ hb_pc = "stopped"

\* C4 as stated: whenever a request to /api/beat is about to leave, more
\* than 120 s had passed since last_updated and the shared run and task_id
\* are set.
C4_BeatOnlyWithTask ==
    hb_pc = "post" =>
        /\ hb_clock.elapsed > HEARTBEAT_PERIOD
        /\ run # None /\ task_id # None

\* C4 amended: whenever a request to /api/beat is about to leave, more
\* than 120 s had passed since last_updated at this wake-up and the run and
\* the task_id this wake-up read from the shared state were both set; the
\* main loop may have cleared them since.
C4_BeatOnlyWithTaskRead ==
    hb_pc = "post" =>
        /\ hb_clock.elapsed > HEARTBEAT_PERIOD
        /\ hb_payload.run_id # None /\ hb_payload.task_id # None
        /\ since_updated = 0

C4_Witness ==
    /\ hb_pc = "post" /\ pc = "run_games"
    /\ hb_payload.run_id = run /\ hb_payload.task_id = task_id /\ run = task.run

OtherInMain == other \in {"main", "main_nolock"}
LockedOut == pc = "done" /\ exit_code = "1" /\ worker_lock = "unheld"
BothStarted == other # "absent" /\ pc # "start"

\* C6 as stated: of two workers started in the same directory, the one
\* that does not get the lock exits with 1, so never both go on.
C6_ExactlyOne ==
    BothStarted =>
        \/ OtherInMain /\ LockedOut
        \/ other = "exit1" /\ worker_lock \in {"held", "released"}

\* C6 amended: the same, provided FileLock() and acquire() raise nothing
\* but Timeout in either worker.
C6_ExactlyOneUnlessUnexpected ==
    (BothStarted /\ "lock" \notin faults /\ other # "main_nolock") =>
        \/ other = "main" /\ LockedOut /\ lock_holder = "other"
        \/ other = "exit1" /\ worker_lock \in {"held", "released"}

C6_Witness ==
    /\ other = "exit1" /\ pc = "loop" /\ worker_lock = "held"
    /\ lock_holder = "self" /\ faults = {}

\* crc32 of the bytes on disk, in hex, is the CRC the runner recorded
CrcAsExpected == hex(crc32(pgn_disk.bytes)) = pgn_file.CRC

\* C7 as stated: once the upload step has run on a PGN file the runner
\* wrote, the PGN has been posted if and only if its CRC is the expected one.
C7_UploadIffCrc ==
    (pc = "unlink" /\ pgn_disk.exists /\ "read_bytes" \notin faults)
        => (posts.upload_pgn = 1 <=> CrcAsExpected)

\* C7 amended: for a non-empty PGN file of a run that is not SPSA, read
\* without an error, the PGN is posted if and only if its CRC is the
\* expected one; nothing is posted for an SPSA run or an empty file.
C7_UploadIffCrcNonSpsa ==
    /\ (pc = "unlink" /\ ~task.spsa /\ "read_bytes" \notin faults)
          => (posts.upload_pgn = 1 <=> CrcAsExpected)
    /\ posts.upload_pgn >= 1
          => (pc = "unlink" => ~task.spsa /\ Len(pgn_disk.bytes) > 0)
    /\ pc = "pgn" => posts.upload_pgn = 0
    /\ posts.upload_pgn <= 1

C7_Witness ==
    /\ pc = "unlink"
    /\ ~task.spsa
    /\ pgn_disk.bytes = <<255>>
    /\ pgn_file.CRC = <<15, 15, 0, 0, 0, 0, 0, 0>>
    /\ posts.upload_pgn = 1

\* the value the expression of the last call evaluates to, after rounding
CalledValue == round(ParseTwice(fn_in.MAX, fn_in.x))
Called == pc = "parsed" /\ fn_in.x.kind # "unparsable"

\* C8 as stated: the expression is invalid exactly when v <= 0 or
\* v > MAX, and the accepted concurrency is v if the expression mentions MAX
\* and v <= MAX, and min(v, MAX - 1) otherwise.
C8_ConcurrencyClamped ==
    Called =>
        /\ fn_out = ValueError <=> (CalledValue <= 0 \/ CalledValue > fn_in.MAX)
        /\ fn_out # ValueError =>
             fn_out.ret = IF fn_in.x.kind # "literal" /\ CalledValue <= fn_in.MAX
                          THEN CalledValue
                          ELSE Min(CalledValue, fn_in.MAX - 1)

\* C8 amended: the expression is invalid exactly when v <= 0, or v > MAX,
\* or v = MAX and the expression does not mention MAX; otherwise the
\* accepted concurrency is v.
C8_ConcurrencyRejected ==
    Called =>
        /\ fn_out = ValueError <=>
             \/ CalledValue <= 0
             \/ CalledValue > fn_in.MAX
             \/ CalledValue = fn_in.MAX /\ fn_in.x.kind = "literal"
        /\ fn_out # ValueError =>
             fn_out = [status |-> "returned", ret |-> CalledValue]

C8_Witness ==
    /\ Called /\ fn_in.x.kind = "MAX" /\ fn_in.MAX = 4
    /\ fn_out = [status |-> "returned", ret |-> 4]

\* C9 as stated: worker() ends with status 0 only if fish.exit was detected.
C9_ZeroOnlyOnFishExit ==
    pc = "done" => (exit_code \in {"0", "1"} /\ (exit_code = "0" => fish_exit))

\* C9 amended: worker() ends with status 0 only if fish.exit was detected
\* or the worker was started with only_config; every other end is status 1.
C9_ZeroOnlyOnFishExitOrOnlyConfig ==
    pc = "done" =>
        /\ exit_code \in {"0", "1"}
        /\ exit_code = "0" => (fish_exit \/ options.only_config)
        /\ (~fish_exit /\ ~options.only_config) => exit_code = "1"

C9_Witness == pc = "done" /\ exit_code = "0" /\ fish_exit /\ ~options.only_config

\* the process has ended after exactly one signal, delivered in run_games
SignalledInRun == pc = "done" /\ signals.in_run /\ signals.count = 1

C10_Reported ==
    /\ ~alive
    /\ posts.failed_task = 1
    /\ posts.stop_run = 0
    /\ posts.message = "Terminated by signal"
    /\ ~late_request
    /\ posts.request_task = 1

NewerVersion == "newer_version" \in faults
UpdateInvoked == "update" \in faults

C12_FishExitStopsCleanly ==
    /\ fish_exit => (~alive /\ pc \in {"shutdown", "release", "join", "done"})
    /\ (fish_exit /\ pc = "done" /\ signals.count = 0) =>
           (exit_code = "0" /\ worker_lock # "held" /\ lock_holder # "self")

\* the call of /api/request_task gave no task (task_waiting, "error", or a
\* WorkerException) and fetch_and_handle_task returns to the main loop
NoTaskReturns ==
    /\ pc = "request_task" /\ pc' = "loop_check"
    /\ signals' = signals

\* the main loop looks at the outcome of such an iteration
NoTaskChecked ==
    /\ pc = "loop_check" /\ pc' # pc
    /\ posts.request_task = 1 /\ ~success /\ "report" \notin faults
    /\ posts.failed_task = 0 /\ posts.stop_run = 0
    /\ signals.count = 0 /\ signals' = signals

\* no runner, no task, no termination call, alive as it was
NoTaskLeavesNoTrace ==
    /\ ~success' /\ exc' = "none" /\ task' = NoTask
    /\ run = None /\ task_id = None /\ UNCHANGED <<run, task_id>>
    /\ posts'.failed_task = 0 /\ posts'.stop_run = 0
    /\ UNCHANGED <<alive, delay, exit_code, fish_exit>>

\* the first two failures in a row wait 15 s and 30 s
FirstBackoffs ==
    (pc = "sleep" /\ fails \in {1, 2}) => delay = INITIAL_RETRY_TIME * fails

\* C13 as stated: an iteration in which /api/request_task gave no task is a
\* failed iteration that runs no match, leaves run and task_id nil, posts no
\* termination call, leaves alive unchanged and goes to the backoff sleep
\* (15 s, then 30 s).
C13_NoTaskOnlyBacksOff ==
    /\ [][(NoTaskReturns => NoTaskLeavesNoTrace)
          /\ (NoTaskChecked => (UNCHANGED <<alive, delay>> /\ pc' = "sleep"))]_vars
    /\ []FirstBackoffs

\* C13 amended: the same, except that the main loop goes to the backoff
\* sleep with alive unchanged only when fleet is false and no fish.exit file
\* exists; otherwise it sets alive false and leaves the loop.
C13_NoTaskBacksOffUnlessStopped ==
    /\ [][(NoTaskReturns => NoTaskLeavesNoTrace)
          /\ (NoTaskChecked =>
                IF fish_file \/ options.fleet
                THEN ~alive' /\ pc' = "shutdown" /\ UNCHANGED delay
                ELSE UNCHANGED <<alive, delay>> /\ pc' = "sleep")]_vars
    /\ []FirstBackoffs

\* the second no-task answer in a row is being waited out
C13_Witness ==
    /\ pc = "sleep" /\ fails = 2 /\ delay = 2 * INITIAL_RETRY_TIME
    /\ posts.request_task = 1 /\ posts.failed_task = 0 /\ posts.stop_run = 0
    /\ faults = {} /\ alive /\ signals.count = 0 /\ ~options.fleet

\* no signal arrived, or the only one arrived inside run_games
NoSignalOutsideRun ==
    \/ signals.count = 0
    \/ signals.count = 1 /\ signals.in_run

\* termination calls of the current iteration, attempts included
TerminationCalls == posts.failed_task + posts.stop_run

\* C14: for a task obtained from /api/request_task the worker posts no
\* termination call before the runner ended, exactly one after the runner
\* raised and none after it returned normally, never a second one whether or
\* not the call failed; and the step that makes the call leaves alive as it is.
C14_TerminationCallOnce ==
    /\ [](TerminationCalls <= 1)
    /\ []((pc \in {"set_run", "set_task_id", "run_games", "clear_task_id", "clear_run", "report"})
            => TerminationCalls = 0)
    /\ []((pc \in {"pgn", "unlink"} /\ NoSignalOutsideRun)
            => TerminationCalls = (IF exc = "none" THEN 0 ELSE 1))
    /\ [][(pc = "report" /\ signals' = signals) => UNCHANGED alive]_vars

\* the call to /api/stop_run failed, was made once, and the worker lives on
C14_Witness ==
    /\ pc = "unlink" /\ exc = "RunException" /\ "report" \in faults
    /\ posts.stop_run = 1 /\ posts.failed_task = 0 /\ alive
    /\ signals.count = 0

\* the main loop was left after an iteration that returned failure, and no
\* signal arrived
FailedAndLeft ==
    /\ pc \in {"shutdown", "release", "join", "done"}
    /\ hb_pc # "unstarted" /\ ~success
    /\ signals.count = 0

\* with fleet=true: no backoff sleep, no second failed iteration, no request
\* after alive fell, alive false once the loop was left after a failure
FleetNeverWaits ==
    /\ pc # "sleep"
    /\ fails <= 1
    /\ ~late_request
    /\ fails = 1 => pc \in {"shutdown", "release", "join", "done"}
    /\ FailedAndLeft => ~alive

TaskReturns ==
    /\ pc \in {"pgn", "unlink"} /\ pc' = "loop_check"
    /\ signals' = signals

\* the runner recorded a PGN file and the file is on disk
PgnRecorded == pgn_file.name /\ pgn_disk.exists

\* C16 as stated: when fetch_and_handle_task returns, a PGN file the runner
\* recorded is gone from disk (unless unlink itself raised), whether it was
\* uploaded, skipped, failed to upload, or belongs to an SPSA run.
C16_PgnDeleted ==
    [][(TaskReturns /\ PgnRecorded /\ "unlink" \notin faults')
          => ~pgn_disk'.exists]_vars

\* C16 amended: the same for a recorded PGN file that is not empty; an empty
\* file stays on disk, and no task with a non-empty file returns without
\* having tried to delete it.
C16_NonEmptyPgnDeleted ==
    [][(TaskReturns /\ PgnRecorded /\ Len(pgn_disk.bytes) > 0)
          => /\ pc = "unlink"
             /\ "unlink" \notin faults' => ~pgn_disk'.exists
             /\ "unlink" \in faults' => UNCHANGED pgn_disk]_vars

\* the upload raised and the file is deleted all the same
C16_Witness ==
    /\ pc = "loop_check" /\ ~pgn_disk.exists
    /\ posts.upload_pgn = 1 /\ faults = {"upload"}
    /\ signals.count = 0

\* verify_sri has returned
Verified == pc = "verified"

\* every file of FILE_LIST can be read and its hash is the entry of sri.txt
SriEntriesMatch ==
    /\ fn_in.sri_txt.kind = "dict"
    /\ \A i \in 1..Len(FILE_LIST) :
         LET k == FILE_LIST[i]
         IN  /\ fn_in.install_dir[k] # Unreadable
             /\ k \in DOMAIN fn_in.sri_txt.dict.hashes
             /\ fn_in.sri_txt.dict.hashes[k] = <<"sha384", fn_in.install_dir[k]>>

\* C17: verify_sri returns true if and only if every file of FILE_LIST has
\* on disk the hash that sri.txt records for it, whatever the __version
\* entry says; an unreadable file, an unreadable or non-dictionary sri.txt
\* or a missing entry gives false.
C17_VerifySriIffHashesMatch ==
    Verified =>
        /\ fn_out.ret = SriEntriesMatch
        /\ (\E f \in Files : fn_in.install_dir[f] = Unreadable) => fn_out.ret = FALSE
        /\ fn_in.sri_txt.kind # "dict" => fn_out.ret = FALSE
        /\ (\E f \in Files : f \notin DOMAIN fn_in.sri_txt.dict.hashes) => fn_out.ret = FALSE

\* sri.txt of another version with the right hashes is accepted
C17_Witness ==
    /\ Verified /\ fn_out.ret = TRUE
    /\ fn_in.sri_txt.dict.version = WORKER_VERSION - 1
    /\ fn_in.install_dir["worker.py"] # fn_in.install_dir["games.py"]

\* what the claim expects of the pair (protocol, port) given to the fix-up
ExpectedPort ==
    IF fn_in.protocol = "http" /\ fn_in.port = 443 THEN 80
    ELSE IF fn_in.protocol = "https" /\ fn_in.port = 80 THEN 443
    ELSE fn_in.port

\* C18: the fix-up turns (http, 443) into (http, 80) and (https, 80) into
\* (https, 443), leaves every other pair and every protocol as it is, and a
\* second application changes nothing more.
C18_PortFixup ==
    pc \in {"fixed", "fixed_again"} =>
        /\ fn_out.ret.protocol = fn_in.protocol
        /\ fn_out.ret.port = ExpectedPort

\* (https, 80) became (https, 443) and stayed so
C18_Witness ==
    /\ pc = "fixed_again"
    /\ fn_in = [protocol |-> "https", port |-> 80]
    /\ fn_out.ret = [protocol |-> "https", port |-> 443]

\* the termination call of a task, if any, has been made
AfterReport == pc \in {"pgn", "unlink"} /\ NoSignalOutsideRun

\* C19: a RunException is reported to /api/stop_run and to nothing else; a
\* FatalException, a WorkerException and any other exception are reported to
\* /api/failed_task and to nothing else; no iteration calls both endpoints.
C19_EndpointByKind ==
    /\ ~(posts.failed_task > 0 /\ posts.stop_run > 0)
    /\ AfterReport =>
         /\ exc = "RunException" => (posts.stop_run = 1 /\ posts.failed_task = 0)
         /\ exc \in {"FatalException", "WorkerException", "Exception"} =>
                (posts.failed_task = 1 /\ posts.stop_run = 0)
         /\ exc = "none" => (posts.failed_task = 0 /\ posts.stop_run = 0)

\* a broken run was reported to /api/stop_run
C19_Witness ==
    /\ pc = "pgn" /\ exc = "RunException" /\ faults = {}
    /\ posts.stop_run = 1 /\ posts.failed_task = 0 /\ signals.count = 0

\* the runner has ended and fetch_and_handle_task has not returned yet
AfterRunner ==
    /\ pc \in {"clear_task_id", "clear_run", "report", "pgn", "unlink"}
    /\ NoSignalOutsideRun

\* the main loop looks at an iteration whose task was reported and alive is
\* still true, with fleet false and no fish.exit
ReportedAndAlive ==
    /\ pc = "loop_check" /\ pc' # pc /\ signals' = signals
    /\ TerminationCalls = 1 /\ ~success /\ alive
    /\ ~options.fleet /\ ~fish_file

\* C20: once the runner has ended, alive is false exactly if it raised a
\* FatalException or an exception that is no WorkerException; after a
\* RunException or a plain WorkerException alive is true, and with fleet
\* false and no fish.exit the loop sleeps and then starts the next iteration.
C20_AliveByKind ==
    /\ [](AfterRunner => (~alive <=> exc \in {"FatalException", "Exception"}))
    /\ [][ReportedAndAlive => (pc' = "sleep" /\ alive')]_vars
    /\ [][(pc = "sleep" /\ pc' # pc /\ signals' = signals)
              => (pc' = "loop" /\ alive /\ alive')]_vars
    /\ [][(pc = "loop" /\ alive /\ pc' # pc /\ signals' = signals)
              => pc' = "verify"]_vars

\* a plain WorkerException was reported to /api/failed_task and the worker
\* sleeps before its next iteration
C20_Witness ==
    /\ pc = "sleep" /\ alive /\ fails = 1 /\ ~options.fleet
    /\ posts.failed_task = 1 /\ posts.stop_run = 0
    /\ signals.count = 0 /\ ~fish_file

\* the lines between the assignment of the task and its clearing
TaskInHand == pc \in {"set_task_id", "run_games", "clear_task_id", "clear_run"}

\* C21: in a living process the shared run and task_id are nil wherever the
\* main thread is outside the lines that hold a task: before the request
\* for a task has succeeded, and from the clearing after the runner on,
\* through the termination report, the PGN upload and the backoff; task_id
\* is nil before it is assigned and as soon as it is cleared.
C21_TaskNilOutsideRun ==
    /\ (Running /\ ~TaskInHand) => (run = None /\ task_id = None)
    /\ pc \in {"set_task_id", "clear_run"} => task_id = None

\* the runner raised and the report is due while a beat is under way
C21_Witness ==
    /\ pc = "report" /\ exc = "RunException" /\ run = None /\ task_id = None
    /\ hb_pc = "post" /\ hb_payload.run_id = task.run

\* C22: the run_id and task_id of a beat that is about to leave belong to
\* one task the dispatcher handed out, never to two different ones.
C22_BeatOfOneTask ==
    hb_pc = "post" =>
        \E t \in Tasks : hb_payload.run_id = t.run /\ hb_payload.task_id = t.task_id

\* a step of the heartbeat thread; any other step belongs to the main
\* thread, the signal handler or the user
HeartbeatStep == hb_pc # "unstarted" /\ hb_pc' # hb_pc

\* C23 as stated: a step of the heartbeat thread leaves alive, run and
\* task_id as they are, and no other step touches last_updated.
C23_HeartbeatWritesClockOnly ==
    [][(HeartbeatStep => UNCHANGED <<alive, run, task_id>>)
       /\ (~HeartbeatStep => UNCHANGED since_updated)]_vars

\* C23 amended: a step of the heartbeat thread leaves alive as it is and
\* changes run and task_id only by setting them to nil where it drops the
\* task; no other step touches last_updated.
C23_HeartbeatWritesClockAndDrops ==
    [][(HeartbeatStep =>
            /\ UNCHANGED alive
            /\ run' \in {run, None} /\ task_id' \in {task_id, None}
            /\ task_id' # task_id => hb_pc = "drop_task_id"
            /\ run' # run => hb_pc = "drop_run")
       /\ (~HeartbeatStep => UNCHANGED since_updated)]_vars

\* the heartbeat has dropped the task the runner is working on
C23_Witness ==
    /\ pc = "run_games" /\ hb_pc = "while" /\ alive
    /\ run = None /\ task_id = None /\ task # NoTask

\* the answer to the beat has no error key and says task_alive = false
SaysNotAlive ==
    /\ fn_in.kind = "answered" /\ ~fn_in.error /\ fn_in.task_alive = "false"

\* C24: an answer without an error key that carries task_alive = false
\* makes the heartbeat set the shared task_id and run to nil; after any
\* other answer, and after a beat that raised, no step of the heartbeat
\* changes them.
C24_DropOnlyWhenNotAlive ==
    /\ []((SaysNotAlive /\ hb_pc = "while") => (run = None /\ task_id = None))
    /\ []((SaysNotAlive /\ hb_pc = "drop_run") => task_id = None)
    /\ [][(hb_pc = "post" /\ hb_pc' # hb_pc) =>
              /\ hb_pc' = IF SaysNotAlive THEN "drop_task_id" ELSE "while"
              /\ UNCHANGED <<run, task_id, alive>>]_vars
    /\ [][(~SaysNotAlive /\ hb_pc' # hb_pc) => UNCHANGED <<run, task_id>>]_vars

\* the task was dropped while the main thread still held it
C24_Witness ==
    /\ SaysNotAlive /\ hb_pc = "while" /\ pc = "clear_task_id"
    /\ run = None /\ task_id = None /\ task # NoTask

\* the beat raises, or its answer has an error key
BeatFails == fn_in.kind = "raised" \/ fn_in.error

\* C25: a beat that fails is never fatal: no step of the heartbeat thread
\* changes alive or what the main loop decides on (success, the delay, the
\* count of failures, its position); after a failed beat the thread is back
\* at its while test with last_updated untouched, it never stops while
\* alive is true, and the next beat leaves 121 s after the failed one was
\* due.
C25_BeatFailureNotFatal ==
    /\ [][HeartbeatStep =>
              UNCHANGED <<alive, success, delay, fails, pc, exit_code>>]_vars
    /\ [][(BeatFails /\ hb_pc = "post" /\ hb_pc' # hb_pc) =>
              (hb_pc' = "while" /\ UNCHANGED <<since_updated, run, task_id>>)]_vars
    /\ [](BeatFails => hb_pc # "stopped")
    /\ []((BeatFails /\ hb_pc = "post") =>
              hb_clock.elapsed \in {0, HEARTBEAT_PERIOD + HEARTBEAT_TICK})

\* the beat after a failed one is about to leave, on time
C25_Witness ==
    /\ BeatFails /\ hb_pc = "post" /\ alive
    /\ hb_clock.elapsed = HEARTBEAT_PERIOD + HEARTBEAT_TICK
    /\ pc = "clear_task_id" /\ run # None /\ task_id # None

\* C26: once alive is false the main loop starts no further iteration, and
\* a worker whose heartbeat was started ends, no signal arriving, only by
\* returning from worker() after the join of the heartbeat thread.
C26_StopsAndJoins ==
    /\ [][(~alive /\ pc = "loop") => pc' \in {"loop", "shutdown", "done"}]_vars
    /\ [][(hb_pc # "unstarted" /\ pc # "done" /\ pc' = "done" /\ signals' = signals)
              => (pc = "join" /\ ~alive)]_vars

\* fetch_and_handle_task returns from its version check, no signal arriving
VersionCheckFails ==
    /\ pc = "verify" /\ pc' = "loop_check"
    /\ signals' = signals

\* the call of /api/request_version raised / answered with an error key
NetworkError == "network_error" \in faults
ErrorKey == ~NetworkError /\ ~NewerVersion

\* the main loop looks at an iteration that ended in the version check
VersionCheckFailed ==
    /\ pc = "loop_check" /\ pc' # pc
    /\ posts.request_task = 0 /\ signals.count = 0 /\ signals' = signals

\* what both failures of the version check have in common: the iteration is
\* a failure without a request for a task; an error key sets alive false,
\* a network error leaves alive as it is
VersionCheckOutcome ==
    VersionCheckFails =>
        /\ ~success' /\ posts'.request_task = 0
        /\ UNCHANGED <<run, task_id, delay>>
        /\ ErrorKey' => ~alive'
        /\ NetworkError' => UNCHANGED alive

\* C27 as stated: after an error key the worker leaves the main loop with
\* alive false; after a network error alive is still true and the main loop
\* goes to the backoff sleep.
C27_VersionCheckFailure ==
    [][/\ VersionCheckOutcome
       /\ (VersionCheckFailed /\ ErrorKey) => (~alive' /\ pc' = "shutdown")
       /\ (VersionCheckFailed /\ NetworkError) => (alive' /\ pc' = "sleep")]_vars

\* C27 amended: the same, the backoff sleep following a network error when
\* fleet is false and no fish.exit file exists; otherwise the main loop
\* sets alive false and ends.
C27_VersionCheckFailureUnlessStopped ==
    [][/\ VersionCheckOutcome
       /\ (VersionCheckFailed /\ ErrorKey) => (~alive' /\ pc' = "shutdown")
       /\ (VersionCheckFailed /\ NetworkError) =>
             IF fish_file \/ options.fleet
             THEN ~alive' /\ pc' = "shutdown"
             ELSE alive' /\ pc' = "sleep"]_vars

\* the version check met a network error and the worker backs off
C27_Witness ==
    /\ pc = "sleep" /\ NetworkError /\ alive /\ posts.request_task = 0
    /\ fails = 1 /\ signals.count = 0

\* the three cases of C28, read off the inputs
RemoteFailed == fn_in.sri_.kind = "failed"
RemoteVersionDiffers ==
    ~RemoteFailed /\ fn_in.sri_.dict.version # WORKER_VERSION
RemoteEntryOff ==
    \E k \in DOMAIN fn_in.sri_.dict.hashes :
        \/ k \notin Files
        \/ fn_in.sri_.dict.hashes[k] # text_hash(fn_in.install_dir[k])

\* start-up went on to the heartbeat with worker_info["modified"] = m
ContinuesWith(m) ==
    /\ pc \in {"start_heartbeat", "loop"}
    /\ exit_code = "none"
    /\ fn_out = [status |-> "worker_info", ret |-> m]

\* C28: verify_remote_sri returns None, True or False and nothing else; a
\* failed download gives None and exit 1 with the heartbeat not started; a
\* different remote version gives an unmodified worker; otherwise modified
\* is true exactly if an entry of the remote manifest is missing from or
\* differs from the local hashes, and start-up goes on either way.
C28_RemoteSriOutcomes ==
    /\ pc = "unmodified" =>
          /\ fn_out.status = "returned"
          /\ RemoteFailed <=> fn_out.ret = "None"
    /\ pc \notin {"verify_remote_sri", "unmodified"} =>
          IF RemoteFailed
          THEN pc = "done" /\ exit_code = "1" /\ hb_pc = "unstarted"
          ELSE IF RemoteVersionDiffers THEN ContinuesWith("False")
          ELSE IF RemoteEntryOff THEN ContinuesWith("True")
          ELSE ContinuesWith("False")

\* the same, for the install directories whose files can all be hashed
RemoteSriOutcomesOfReadable ==
    (\A f \in Files : fn_in.install_dir[f] # Unreadable) => C28_RemoteSriOutcomes

\* floor((max_memory - 60) / 360) of the options given
FloorMaxConc == (fn_in.max_memory - 60) \div 360

\* C29: with max_conc = floor((max_memory - 60) / 360), the worker refuses
\* to start if max_conc < 1; otherwise the final concurrency is
\* min(requested, max_conc), concurrency_reduced is true exactly if
\* requested > max_conc, and 360 * c + 60 <= max_memory for the final c.
C29_MemoryFeasible ==
    pc = "limited" =>
        IF FloorMaxConc < 1
        THEN fn_out.status = "None"
        ELSE /\ fn_out.status = "options"
             /\ fn_out.ret.concurrency = Min(fn_in.concurrency, FloorMaxConc)
             /\ fn_out.ret.concurrency_reduced <=> fn_in.concurrency > FloorMaxConc
             /\ 360 * fn_out.ret.concurrency + 60 <= fn_in.max_memory

\* a concurrency of 4 cut to the 2 that 1000 MiB allow
C29_Witness ==
    /\ pc = "limited"
    /\ fn_in = [max_memory |-> 1000, concurrency |-> 4]
    /\ fn_out.status = "options"
    /\ fn_out.ret = [concurrency |-> 2, concurrency_reduced |-> TRUE]

\* the upload block has run on the PGN file of a task
UploadBlockRuns == pc = "pgn" /\ pc' = "unlink" /\ signals' = signals
Posted == posts'.upload_pgn = posts.upload_pgn + 1

\* C30: a task of an SPSA run never posts /api/upload_pgn, whatever file and
\* CRC the runner left; for any other run the upload block posts the PGN it
\* read exactly if the CRC check passes, and nothing else posts one.
C30_SpsaNeverUploads ==
    /\ [](task.spsa => posts.upload_pgn = 0)
    /\ [][(UploadBlockRuns /\ task.spsa) => UNCHANGED posts]_vars
    /\ [][(UploadBlockRuns /\ ~task.spsa /\ "read_bytes" \notin faults')
             => (Posted <=> CrcAsExpected)]_vars
    /\ [][(posts'.upload_pgn # posts.upload_pgn /\ posts'.upload_pgn # 0)
             => (pc = "pgn" /\ ~task.spsa /\ CrcAsExpected /\ Posted)]_vars

\* the upload block of an SPSA task with a non-empty PGN file of the
\* expected CRC has run without a post
C30_Witness ==
    /\ pc = "unlink" /\ task.spsa
    /\ Len(pgn_disk.bytes) > 0 /\ CrcAsExpected
    /\ posts.upload_pgn = 0

\* the PGN part of fetch_and_handle_task takes a step, no signal arriving
PgnStep == pc \in {"pgn", "unlink"} /\ pc' # pc /\ signals' = signals

\* the upload block skipped the upload on a CRC mismatch, or an exception
\* was raised in it
UploadTrouble ==
    \/ pc = "pgn" /\ pc' = "unlink" /\ ~task.spsa /\ ~CrcAsExpected
    \/ faults' \cap {"read_bytes", "upload"} # {}

\* C31: a CRC mismatch or an exception in the upload block leaves the
\* result of the iteration, alive and the termination calls as they are,
\* up to the return of fetch_and_handle_task; the main loop then treats a
\* successful task as any success: no failure counted, no sleep, the delay
\* back at INITIAL_RETRY_TIME when the loop goes on.
C31_UploadTroubleAdvisory ==
    /\ [][(PgnStep /\ UploadTrouble)
             => /\ success' = success /\ alive' = alive
                /\ posts'.failed_task = posts.failed_task
                /\ posts'.stop_run = posts.stop_run]_vars
    /\ [][(pc = "loop_check" /\ pc' # pc /\ success
              /\ signals.count = 0 /\ signals' = signals
              /\ faults \cap {"read_bytes", "upload"} # {})
             => /\ fails' <= fails /\ pc' # "sleep"
                /\ posts'.failed_task = 0 /\ posts'.stop_run = 0
                /\ pc' = "loop"
                      => (delay' = INITIAL_RETRY_TIME /\ fails' = 0 /\ alive')]_vars

\* a successful task whose upload raised is back in the main loop, the
\* delay reset after an earlier failure
C31_Witness ==
    /\ pc = "loop" /\ alive /\ success /\ "upload" \in faults
    /\ posts.upload_pgn = 1 /\ posts.failed_task = 0 /\ posts.stop_run = 0
    /\ delay = INITIAL_RETRY_TIME /\ fails = 0 /\ signals.count = 0

\* the text printed to stderr and the message field posted
Informed == fn_out.status = "informed"
StderrText == fn_out.ret.message
MessageField == fn_out.ret.server_message

Contains(text, part) == \E i \in DOMAIN text : text[i] = part

\* the text names the type of the exception, a frame of its traceback as
\* file:line, and the worker version
NamesTypePlaceVersion(text) ==
    /\ Contains(text, fn_in.failure.e)
    /\ \E i \in DOMAIN fn_in.tb :
          Contains(text, fn_in.tb[i].filename \o ":" \o fn_in.tb[i].lineno)
    /\ Contains(text, ToString(WORKER_VERSION))

\* C32 as stated: whatever exception ended the runner, the message names
\* the exception type, a source location and the worker version, and the
\* text printed to stderr is the message field of the termination call.
C32_MessageNamesAll ==
    Informed => (NamesTypePlaceVersion(MessageField) /\ StderrText = MessageField)

\* C32 amended: for FatalException, RunException and WorkerException the
\* text printed and the message field are both the text of the exception
\* and nothing more; for any other exception the message field names type,
\* location and version, and the text printed is the message field followed
\* by the text of the exception in parentheses.
C32_MessageByKind ==
    Informed =>
        IF fn_in.failure.e \in {"FatalException", "RunException", "WorkerException"}
        THEN MessageField = <<fn_in.failure.text>> /\ StderrText = MessageField
        ELSE /\ NamesTypePlaceVersion(MessageField)
             /\ Len(MessageField) = 6
             /\ StderrText = MessageField \o <<"(", fn_in.failure.text, ")">>

\* an exception raised in subprocess.py below games.py, reported at the
\* frame of games.py
C32_Witness ==
    /\ Informed
    /\ fn_in.failure = [e |-> "Exception", text |-> ""]
    /\ fn_in.tb = <<CallFrame, [filename |-> "games.py", lineno |-> "20"],
                    [filename |-> "subprocess.py", lineno |-> "10"]>>
    /\ MessageField = <<"Exception", "Exception", "at", "games.py:20",
                        "WorkerVersion:", "286">>

\* the heartbeat sets a task_id or a run that is not nil to nil
HeartbeatDrops ==
    \/ hb_pc = "drop_task_id" /\ task_id # None /\ task_id' = None
    \/ hb_pc = "drop_run" /\ run # None /\ run' = None

\* C33: what the heartbeat sets to nil after a task_alive=false response is
\* the run and task_id of the task the beat was sent for, never those of a
\* task installed while the request was in flight.
C33_DropsOnlyBeatenTask ==
    [][HeartbeatDrops =>
          /\ hb_pc = "drop_task_id" => task_id = hb_payload.task_id
          /\ hb_pc = "drop_run" => run = hb_payload.run_id]_vars

\* worker() is past the acquisition and on its way into the main loop; the
\* main loop is requesting or running a task
OnTheWayToLoop == pc \in {"setup", "startup_version", "startup_checks", "start_heartbeat"}
WithTask == pc \in {"request_task", "set_run", "set_task_id", "run_games"}
HoldsLock == worker_lock = "held" /\ lock_holder = "self"

ShutdownReleases == pc = "release" /\ pc' # pc
UpdateReleases ==
    /\ pc \in {"startup_version", "verify"}
    /\ "newer_version" \in faults' /\ "newer_version" \notin faults

\* C35: release is called on a lock object that exists and that this
\* process has not released before; in particular the shutdown code does
\* not call it after the release for an update.
C35_ReleasedAtMostOnce ==
    [][/\ (ShutdownReleases \/ UpdateReleases) => worker_lock \notin {"None", "released"}
       /\ ShutdownReleases => "newer_version" \notin faults]_vars

\* the main loop looks at the iteration that just ended, no signal
\* arriving; the shutdown code ends the process, no signal arriving
ChecksIteration == pc = "loop_check" /\ pc' # pc /\ signals' = signals
ShutdownEnds ==
    /\ pc \in {"shutdown", "release", "join"} /\ pc' = "done"
    /\ signals' = signals

\* C36: if fish.exit exists when fetch_and_handle_task returns, the main
\* loop stops on it whatever else ended the iteration (signal, fatal or
\* unknown exception, rejected version, fleet failure), and the worker
\* then exits with code 0.
C36_FishExitFirst ==
    /\ [][(ChecksIteration /\ fish_file)
             => (fish_exit' /\ ~alive' /\ pc' = "shutdown")]_vars
    /\ [][(ShutdownEnds /\ fish_exit) => exit_code' = "0"]_vars

\* the main thread is between two iterations or in the shutdown code
BetweenIterations == pc \in {"sleep", "loop", "shutdown", "release", "join"}

\* a signal arrives while safe_sleep sleeps
SignalWhileSleeping == pc = "sleep" /\ signals' # signals

====
